---- MODULE Spec2Model ----
(***************************************************************************)
(* A model of the reconciliation-and-scoring batch job processData         *)
(* (scripts/process_data.ts): raw_data.json is read, every footprint is    *)
(* mapped to a polygon feature (owner resolution, joins, score, recent     *)
(* activity), every feature to a centroid point, and the two collections   *)
(* are written.  Two more programs of the repository stand beside it, each *)
(* with a next-state relation of its own: the acquisition script fetchData *)
(* (scripts/fetch_data.ts), which requests the collections whole or in     *)
(* chunks and writes raw_data.json, and the SearchBar component, whose     *)
(* keystrokes, debounce timer and geosearch answers interleave.            *)
(*                                                                         *)
(* JavaScript values are tagged records (undefined, string, number, NaN);  *)
(* strings are TLA+ strings, so padStart, template literals, toString,     *)
(* parseInt and the loose/strict equalities are computed as the engine     *)
(* computes them.  Fields other than the key fragments (boroid, block,     *)
(* lot, bbl, borocode) are strings or absent, as the open-data API         *)
(* delivers them; a description that is a number makes the footprint       *)
(* callback throw.                                                         *)
(***************************************************************************)
EXTENDS Integers, Sequences, FiniteSets, TLC

VARIABLES
    inputFile,     \* "missing" | "malformed" | "ok": raw_data.json on disk
    raw,           \* the parsed input document (rawData)
    currentYear,   \* what new Date().getFullYear() returns now
    pc,            \* position of processData
    features,      \* features built so far by footprints.map
    pointFeatures, \* pointFeatures built so far by features.map
    buildingsFile, \* buildings.geojson: [written, features]
    pointsFile,    \* risk_points.geojson: [written, features]
    fetch,         \* fetchData: its position, its locals and the requests it has made
    rawDataFile,   \* raw_data.json as fetchData leaves it: [writes, output]
    search         \* SearchBar: its state, its timer, its timer callbacks in flight

vars == <<inputFile, raw, currentYear, pc, features, pointFeatures, buildingsFile, pointsFile,
          fetch, rawDataFile, search>>

-----------------------------------------------------------------------------
(* JavaScript values *)

U == [t |-> "undef", s |-> "", n |-> 0]
NaNv == [t |-> "nan", s |-> "", n |-> 0]
S(str) == [t |-> "str", s |-> str, n |-> 0]
N(num) == [t |-> "num", s |-> "", n |-> num]

\* ToBoolean
Truthy(v) ==
    CASE v.t = "undef" -> FALSE
      [] v.t = "nan" -> FALSE
      [] v.t = "str" -> v.s # ""
      [] v.t = "num" -> v.n # 0

Digits == <<"0", "1", "2", "3", "4", "5", "6", "7", "8", "9">>

IsDigit(c) == \E d \in 1..10 : Digits[d] = c

DigitVal(c) == (CHOOSE d \in 1..10 : Digits[d] = c) - 1

CharAt(str, k) == SubSeq(str, k, k)

RECURSIVE NatToStr(_)
NatToStr(k) == IF k < 10 THEN Digits[k + 1] ELSE NatToStr(k \div 10) \o Digits[(k % 10) + 1]

\* Number.prototype.toString for the integers of the model
IntToStr(k) == IF k < 0 THEN "-" \o NatToStr(-k) ELSE NatToStr(k)

\* ToString: what a template literal `${v}` and v.toString() produce
ToStr(v) ==
    CASE v.t = "undef" -> "undefined"
      [] v.t = "nan" -> "NaN"
      [] v.t = "str" -> v.s
      [] v.t = "num" -> IntToStr(v.n)

RECURSIVE Zeros(_)
Zeros(k) == IF k <= 0 THEN "" ELSE "0" \o Zeros(k - 1)

\* a padding that fills on the right
PadEnd(str, width) == IF Len(str) >= width THEN str ELSE str \o Zeros(width - Len(str))

\* String.prototype.padStart(width, '0'): never shortens the string
PadStart(str, width) == IF Len(str) >= width THEN str ELSE Zeros(width - Len(str)) \o str

AllDigits(str) == \A k \in 1..Len(str) : IsDigit(CharAt(str, k))

\* length of the longest prefix of str made of digits
RECURSIVE DigitPrefixLen(_)
DigitPrefixLen(str) ==
    IF str = "" \/ ~IsDigit(CharAt(str, 1)) THEN 0
    ELSE 1 + DigitPrefixLen(SubSeq(str, 2, Len(str)))

RECURSIVE DigitsToNat(_)
DigitsToNat(str) ==
    IF str = "" THEN 0
    ELSE 10 * DigitsToNat(SubSeq(str, 1, Len(str) - 1)) + DigitVal(CharAt(str, Len(str)))

\* parseInt(str): optional sign, then the longest digit prefix; NaN when there is none
\* (leading white space and the 0x prefix are not modelled)
ParseInt(str) ==
    LET neg == str # "" /\ CharAt(str, 1) = "-"
        body == IF neg THEN SubSeq(str, 2, Len(str)) ELSE str
        k == DigitPrefixLen(body)
    IN  IF k = 0 THEN NaNv
        ELSE N((IF neg THEN -1 ELSE 1) * DigitsToNat(SubSeq(body, 1, k)))

\* ToNumber of a string, for the strings of the model: "" is 0, a digit string its value
StrToNumber(str) ==
    IF str = "" THEN N(0)
    ELSE IF AllDigits(str) THEN N(DigitsToNat(str))
    ELSE NaNv

\* a === b
StrictEq(a, b) == a.t # "nan" /\ a = b

\* a == b (abstract equality): string against number compares ToNumber(string)
LooseEq(a, b) ==
    CASE a.t = "nan" \/ b.t = "nan" -> FALSE
      [] a.t = b.t -> a = b
      [] a.t = "str" /\ b.t = "num" -> StrToNumber(a.s) = b
      [] a.t = "num" /\ b.t = "str" -> StrToNumber(b.s) = a
      [] OTHER -> FALSE

-----------------------------------------------------------------------------
(* Array helpers *)

\* Array.prototype.filter is SelectSeq: a new array, the source untouched.
\* Array.prototype.find as an index, hits[k] telling whether element k matches: the
\* first match, 0 when nothing matches
FindIndex(hits) ==
    IF \E k \in 1..Len(hits) : hits[k]
    THEN CHOOSE k \in 1..Len(hits) : hits[k] /\ \A m \in 1..(k - 1) : ~hits[m]
    ELSE 0

Slice(seq, k) == SubSeq(seq, 1, IF Len(seq) < k THEN Len(seq) ELSE k)

-----------------------------------------------------------------------------
(* Bounds of the model *)

StartYear == 2026
MaxYearsPassing == 1

-----------------------------------------------------------------------------
(* Program constants of the emitted score (process_data.ts, newRiskScore) *)

WeightClassC == 3
WeightClassB == 2
WeightClassA == 1
WeightDob == 5
\* a complaint weighs 0.5: the score is kept in half points, so one complaint is
\* ComplaintHalfPoints half points and every whole weight counts HalfPointsPerPoint times
ComplaintHalfPoints == 1
HalfPointsPerPoint == 2
ScoreCap == 100
AgeThreshold == 80
AgePenalty == 5
BlockWidth == 5
LotWidth == 4
RecentPerSource == 3
RecentTotal == 8
DedupePrefix == 20

-----------------------------------------------------------------------------
(* The document: const { dob_violations = [], ... } = rawData *)

\* a collection of the document, [] when the document does not hold it
Coll(doc, name) == IF name \in doc.absent THEN <<>> ELSE doc[name]

-----------------------------------------------------------------------------
(* Owner resolution *)

UnknownOwner == S("Unknown Owner")

\* pluto_data.find(p => p.bbl == bbl): index of the land-use record, 0 when none
PlutoIndex(doc, bbl) ==
    LET pluto == Coll(doc, "pluto_data")
    IN  FindIndex([k \in 1..Len(pluto) |-> LooseEq(pluto[k].bbl, bbl)])

\* const headOfficer = contacts.find(c => c.type === 'HeadOfficer' || c.type === 'IndividualOwner')
HeadOfficerIndex(contacts) ==
    FindIndex([k \in 1..Len(contacts) |->
                  contacts[k].type = S("HeadOfficer") \/ contacts[k].type = S("IndividualOwner")])

\* contacts.find(c => c.type === kind)
ContactIndex(contacts, kind) ==
    FindIndex([k \in 1..Len(contacts) |-> contacts[k].type = S(kind)])

\* the contacts of the building's first registration link, [] without a link
ContactsOf(doc, bin) ==
    LET regs == Coll(doc, "hpd_registrations")
        link == FindIndex([k \in 1..Len(regs) |-> StrictEq(regs[k].bin, bin)])
        OfReg(c) == StrictEq(c.registrationid, regs[link].registrationid)
    IN  IF link = 0 THEN <<>> ELSE SelectSeq(Coll(doc, "hpd_contacts"), OfReg)

\* ownerName after the priority chain; U when the land-use record has no ownername
OwnerName(doc, building) ==
    LET bbl == building.base_bbl
        pluto == Coll(doc, "pluto_data")
        p == PlutoIndex(doc, bbl)
        baseline == IF p # 0 THEN pluto[p].ownername ELSE UnknownOwner
        contacts == ContactsOf(doc, building.bin)
        h == HeadOfficerIndex(contacts)
        m == ContactIndex(contacts, "SiteManager")
        c == ContactIndex(contacts, "CorporateOwner")
    IN  IF Len(contacts) = 0 THEN baseline
        ELSE IF h # 0 /\ Truthy(contacts[h].firstname) /\ Truthy(contacts[h].lastname)
        THEN S(ToStr(contacts[h].firstname) \o " " \o ToStr(contacts[h].lastname) \o " (Reg)")
        ELSE IF m # 0 /\ Truthy(contacts[m].firstname) /\ Truthy(contacts[m].lastname)
        THEN S(ToStr(contacts[m].firstname) \o " " \o ToStr(contacts[m].lastname) \o " (Mgr)")
        ELSE IF c # 0 /\ Truthy(contacts[c].corporationname)
        THEN contacts[c].corporationname
        ELSE baseline

-----------------------------------------------------------------------------
(* Joins *)

\* a join that keeps the structural violations of the legacy score's high-severity types
BuildingDobViolationsOfHighSeverity(doc, building) ==
    LET SameBin(v) == /\ StrictEq(v.bin, building.bin)
                      /\ v.violation_type_code \in {S("UB"), S("C"), S("LL11")}
    IN  SelectSeq(Coll(doc, "dob_violations"), SameBin)

\* buildingDobViolations = dob_violations.filter(v => v.bin === bin)
BuildingDobViolations(doc, building) ==
    LET SameBin(v) == StrictEq(v.bin, building.bin)
    IN  SelectSeq(Coll(doc, "dob_violations"), SameBin)

\* the composite key of the first maintenance join; U when the filter builds none
JoinKey(v) ==
    LET hpdBlock == IF v.block.t = "undef" THEN U ELSE S(PadStart(ToStr(v.block), BlockWidth))
        hpdLot == IF v.lot.t = "undef" THEN U ELSE S(PadStart(ToStr(v.lot), LotWidth))
    IN  IF Truthy(v.boroid) /\ Truthy(hpdBlock) /\ Truthy(hpdLot)
        THEN S(ToStr(v.boroid) \o hpdBlock.s \o hpdLot.s)
        ELSE U

\* buildingHpdViolations: the maintenance violations joined for the activity feed
BuildingHpdViolations(doc, building) ==
    LET bbl == building.base_bbl
        Match(v) == Truthy(bbl) /\ JoinKey(v) # U /\ StrictEq(JoinKey(v), bbl)
    IN  SelectSeq(Coll(doc, "hpd_violations"), Match)

\* hpdBbl of the second maintenance filter, built whatever fragments are there
CountKey(v) ==
    LET vBlock == IF Truthy(v.block) THEN ToStr(v.block) ELSE ""
        vLot == IF Truthy(v.lot) THEN ToStr(v.lot) ELSE ""
    IN  S(ToStr(v.boroid) \o PadStart(vBlock, BlockWidth) \o PadStart(vLot, LotWidth))

\* hpdVios: the maintenance violations counted and classified
HpdVios(doc, building) ==
    LET Match(v) == Truthy(v.novissueddate) /\ StrictEq(CountKey(v), building.base_bbl)
    IN  SelectSeq(Coll(doc, "hpd_violations"), Match)

\* the complaint join without its test that the complaint has a bbl
Building311ComplaintsUnguarded(doc, building) ==
    LET Match(c) == c.bbl = building.base_bbl
    IN  SelectSeq(Coll(doc, "three_one_one"), Match)

\* building311Complaints = three_one_one.filter(c => c.bbl && c.bbl === bbl)
Building311Complaints(doc, building) ==
    LET Match(c) == Truthy(c.bbl) /\ StrictEq(c.bbl, building.base_bbl)
    IN  SelectSeq(Coll(doc, "three_one_one"), Match)

\* the number of counted violations of one class letter
ClassCount(vios, letter) ==
    LET IsClass(v) == v.class = S(letter)
    IN  Len(SelectSeq(vios, IsClass))

\* a count that leaves out the violations without class
OtherClassCountOfPresent(vios) ==
    LET IsOther(v) == Truthy(v.class) /\ v.class # S("A") /\ v.class # S("B") /\ v.class # S("C")
    IN  Len(SelectSeq(vios, IsOther))

\* hpdI: every counted violation whose class is none of 'A', 'B', 'C'
OtherClassCount(vios) ==
    LET IsOther(v) == v.class # S("A") /\ v.class # S("B") /\ v.class # S("C")
    IN  Len(SelectSeq(vios, IsOther))

-----------------------------------------------------------------------------
(* Age and score *)

\* yearBuilt = parseInt(building.cnstrct_yr || "0")
YearBuilt(building) ==
    ParseInt(IF Truthy(building.cnstrct_yr) THEN ToStr(building.cnstrct_yr) ELSE "0")

\* age = yearBuilt > 0 ? currentYear - yearBuilt : 0
Age(building, year) ==
    LET yearBuilt == YearBuilt(building)
    IN  IF yearBuilt.t = "num" /\ yearBuilt.n > 0 THEN year - yearBuilt.n ELSE 0

Min(a, b) == IF a < b THEN a ELSE b
Max(a, b) == IF a > b THEN a ELSE b

\* a rounding that sends a half down
RoundHalfDown(h) == h \div HalfPointsPerPoint

\* Math.round of h half points: the nearest integer, a half rounding up
RoundHalfPoints(h) == (h + 1) \div HalfPointsPerPoint

\* the score without its last clamp
NewRiskScoreNoClamp(hpdC, hpdB, hpdA, dobCount, complaintCount, age) ==
    LET base == HalfPointsPerPoint * (hpdC * WeightClassC + hpdB * WeightClassB
                                      + hpdA * WeightClassA + dobCount * WeightDob)
                + complaintCount * ComplaintHalfPoints
        capped == Min(base, HalfPointsPerPoint * ScoreCap)
    IN  IF age > AgeThreshold /\ capped > 0
        THEN capped + HalfPointsPerPoint * AgePenalty ELSE capped

\* the score with the age penalty on an empty record too
NewRiskScoreAgedAlways(hpdC, hpdB, hpdA, dobCount, complaintCount, age) ==
    LET base == HalfPointsPerPoint * (hpdC * WeightClassC + hpdB * WeightClassB
                                      + hpdA * WeightClassA + dobCount * WeightDob)
                + complaintCount * ComplaintHalfPoints
        capped == Min(base, HalfPointsPerPoint * ScoreCap)
        aged == IF age > AgeThreshold
                THEN capped + HalfPointsPerPoint * AgePenalty ELSE capped
    IN  Min(Max(aged, 0), HalfPointsPerPoint * ScoreCap)

\* newRiskScore, in half points, before Math.round
NewRiskScore(hpdC, hpdB, hpdA, dobCount, complaintCount, age) ==
    LET base == HalfPointsPerPoint * (hpdC * WeightClassC + hpdB * WeightClassB
                                      + hpdA * WeightClassA + dobCount * WeightDob)
                + complaintCount * ComplaintHalfPoints
        capped == Min(base, HalfPointsPerPoint * ScoreCap)
        aged == IF age > AgeThreshold /\ capped > 0
                THEN capped + HalfPointsPerPoint * AgePenalty ELSE capped
    IN  Min(Max(aged, 0), HalfPointsPerPoint * ScoreCap)

-----------------------------------------------------------------------------
(* Strings of the activity feed *)

\* String.prototype.substring(from, to), 0-based, to exclusive, clamped to the string
Substring(str, from, to) ==
    LET a == Min(Max(from, 0), Len(str))
        b == Min(Max(to, 0), Len(str))
    IN  IF a >= b THEN "" ELSE SubSeq(str, a + 1, b)

Drop(str, k) == Substring(str, k, Len(str))

StartsWith(str, prefix) == Substring(str, 0, Len(prefix)) = prefix

\* the number of leading characters of str that are in the set chars
RECURSIVE Span(_, _)
Span(str, chars) ==
    IF str = "" \/ CharAt(str, 1) \notin chars THEN 0 ELSE 1 + Span(Drop(str, 1), chars)

RECURSIVE TrimEnd(_)
TrimEnd(str) ==
    IF str # "" /\ CharAt(str, Len(str)) = " " THEN TrimEnd(Substring(str, 0, Len(str) - 1))
    ELSE str

\* String.prototype.trim, the white space of the model being the blank
Trim(str) == TrimEnd(Drop(str, Span(str, {" "})))

\* str.split('T')[0]: what precedes the first 'T'
RECURSIVE BeforeT(_)
BeforeT(str) ==
    IF str = "" \/ CharAt(str, 1) = "T" THEN "" ELSE CharAt(str, 1) \o BeforeT(Drop(str, 1))

DigitSet == {Digits[d] : d \in 1..10}

\* description.replace(/^\(\d+\)/, ''): a leading parenthesised number is dropped
StripLeadingCode(str) ==
    LET k == Span(Drop(str, 1), DigitSet)
    IN  IF StartsWith(str, "(") /\ k > 0 /\ CharAt(Drop(str, 1 + k) \o " ", 1) = ")"
        THEN Drop(str, k + 2) ELSE str

\* the section sign U+00A7 the pattern starts with: strings are kept in ASCII, so
\* it is written as a character that no other string of the model holds
SectionSign == "$"

\* the length of the match of /(section sign)\s*[\d-]+(\s*ADM CODE)?(\s*HMC)?[:]\s*/ at the start of
\* str, 0 when str does not start with one (the i flag is not modelled)
CitationLen(str) ==
    LET a == 1 + Span(Drop(str, 1), {" "})
        b == Span(Drop(str, a), DigitSet \cup {"-"})
        r1 == Drop(str, a + b)
        c == IF StartsWith(Drop(r1, Span(r1, {" "})), "ADM CODE")
             THEN Span(r1, {" "}) + Len("ADM CODE") ELSE 0
        r2 == Drop(r1, c)
        d == IF StartsWith(Drop(r2, Span(r2, {" "})), "HMC")
             THEN Span(r2, {" "}) + Len("HMC") ELSE 0
        r3 == Drop(r2, d)
    IN  IF StartsWith(str, SectionSign) /\ b > 0 /\ StartsWith(r3, ":")
        THEN a + b + c + d + 1 + Span(Drop(r3, 1), {" "})
        ELSE 0

\* novdescription.replace(/(section sign).../i, ''): the first citation, wherever it starts, is dropped
RECURSIVE StripCitation(_)
StripCitation(str) ==
    IF str = "" THEN ""
    ELSE IF CitationLen(str) > 0 THEN Drop(str, CitationLen(str))
    ELSE CharAt(str, 1) \o StripCitation(Drop(str, 1))

\* the collation rank of a character: punctuation before digits before letters
CharRank(c) ==
    CASE c = " " -> 0
      [] c = "-" -> 1
      [] c = ":" -> 2
      [] c = "." -> 3
      [] c = "/" -> 4
      [] IsDigit(c) -> 10 + DigitVal(c)
      [] c = "A" -> 20
      [] c = "N" -> 21
      [] c = "T" -> 22
      [] OTHER -> 30

\* a.localeCompare(b) for the characters above: -1, 0 or 1
RECURSIVE LocaleCompare(_, _)
LocaleCompare(a, b) ==
    IF a = b THEN 0
    ELSE IF a = "" THEN -1
    ELSE IF b = "" THEN 1
    ELSE IF CharRank(CharAt(a, 1)) < CharRank(CharAt(b, 1)) THEN -1
    ELSE IF CharRank(CharAt(a, 1)) > CharRank(CharAt(b, 1)) THEN 1
    ELSE LocaleCompare(Drop(a, 1), Drop(b, 1))

\* a step that puts x before its equals as well
RECURSIVE InsertDescUnstable(_, _)
InsertDescUnstable(sorted, x) ==
    IF sorted = <<>> THEN <<x>>
    ELSE IF LocaleCompare(x.key, Head(sorted).key) >= 0 THEN <<x>> \o sorted
    ELSE <<Head(sorted)>> \o InsertDescUnstable(Tail(sorted), x)

\* one step of the stable sort: x goes before the first element it must precede
RECURSIVE InsertDesc(_, _)
InsertDesc(sorted, x) ==
    IF sorted = <<>> THEN <<x>>
    ELSE IF LocaleCompare(x.key, Head(sorted).key) > 0 THEN <<x>> \o sorted
    ELSE <<Head(sorted)>> \o InsertDesc(Tail(sorted), x)

\* Array.prototype.sort((a, b) => b.key.localeCompare(a.key)): descending and stable
RECURSIVE SortDesc(_)
SortDesc(items) ==
    IF items = <<>> THEN <<>>
    ELSE InsertDesc(SortDesc(SubSeq(items, 1, Len(items) - 1)), items[Len(items)])

-----------------------------------------------------------------------------
(* Recent activity *)

Keyed(k, item) == [key |-> k, item |-> item]

Items(keyed) == [k \in 1..Len(keyed) |-> keyed[k].item]

OrEmpty(v) == IF Truthy(v) THEN ToStr(v) ELSE ""

\* one source's records as they arrive, the first three
FirstArrived(records, dateField) == Slice(records, RecentPerSource)

\* one source's records, sorted by the source's date field descending, the first three
MostRecent(records, dateField) ==
    LET keyed == [k \in 1..Len(records) |-> Keyed(OrEmpty(records[k][dateField]), records[k])]
    IN  Slice(Items(SortDesc(keyed)), RecentPerSource)

DobEntry(v) ==
    [source |-> "DOB",
     date |-> IF Truthy(v.issue_date)
              THEN Substring(v.issue_date.s, 0, 4) \o "-" \o Substring(v.issue_date.s, 4, 6)
                   \o "-" \o Substring(v.issue_date.s, 6, 8)
              ELSE "N/A",
     description |-> IF Truthy(v.description)
                     THEN Trim(StripLeadingCode(v.description.s)) ELSE "Violation"]

HpdEntry(v) ==
    [source |-> "HPD",
     date |-> IF Truthy(v.novissueddate) THEN BeforeT(v.novissueddate.s) ELSE "N/A",
     description |-> IF Truthy(v.novdescription)
                     THEN Trim(StripCitation(v.novdescription.s)) ELSE "Violation"]

ComplaintEntry(c) ==
    [source |-> "311",
     date |-> IF Truthy(c.created_date) THEN BeforeT(c.created_date.s) ELSE "N/A",
     description |-> ToStr(c.complaint_type) \o ": " \o ToStr(c.descriptor)]

RecentDob(dobs) ==
    LET r == MostRecent(dobs, "issue_date") IN [k \in 1..Len(r) |-> DobEntry(r[k])]

RecentHpd(hpds) ==
    LET r == MostRecent(hpds, "novissueddate") IN [k \in 1..Len(r) |-> HpdEntry(r[k])]

Recent311(complaints) ==
    LET r == MostRecent(complaints, "created_date") IN [k \in 1..Len(r) |-> ComplaintEntry(r[k])]

\* the key of the seen set
DedupeKey(e) == e.date \o "-" \o Substring(e.description, 0, DedupePrefix)

\* allRecentViolations.filter with the seen set: the first entry of every key is kept
RECURSIVE Dedupe(_, _)
Dedupe(entries, seen) ==
    IF entries = <<>> THEN <<>>
    ELSE IF DedupeKey(Head(entries)) \in seen THEN Dedupe(Tail(entries), seen)
    ELSE <<Head(entries)>> \o Dedupe(Tail(entries), seen \cup {DedupeKey(Head(entries))})

\* the merged list as it is
MergeUnsorted(merged) == merged

\* the merged list sorted from its last item to its first
MergeSortedFromLast(merged) ==
    Items(SortDesc([k \in 1..Len(merged) |-> Keyed(merged[Len(merged) + 1 - k].date,
                                                   merged[Len(merged) + 1 - k])]))

\* [...recentDob, ...recentHpd, ...recent311] sorted by date descending
MergeSorted(merged) ==
    Items(SortDesc([k \in 1..Len(merged) |-> Keyed(merged[k].date, merged[k])]))

\* sort and deduplicate, every entry kept
AggregateUntruncated(merged) == Dedupe(MergeSorted(merged), {})

\* sort, deduplicate, keep the first eight
Aggregate(merged) == Slice(Dedupe(MergeSorted(merged), {}), RecentTotal)

AllRecentViolations(dobs, hpds, complaints) ==
    Aggregate(RecentDob(dobs) \o RecentHpd(hpds) \o Recent311(complaints))

-----------------------------------------------------------------------------
(* Address, postal code, borough, height *)

UnknownAddress == "Unknown Address"

HasStreetAddress(v) == Truthy(v.house_number) /\ Truthy(v.street) /\ Len(Trim(v.street.s)) > 0

HasIncidentAddress(c) == Truthy(c.incident_address) /\ Len(Trim(c.incident_address.s)) > 0

\* address: the first structural violation with house number and street, else the first
\* complaint with an incident address, else the land-lot id or the building id
Address(building, dobs, complaints) ==
    LET validDob == FindIndex([k \in 1..Len(dobs) |-> HasStreetAddress(dobs[k])])
        valid311 == FindIndex([k \in 1..Len(complaints) |-> HasIncidentAddress(complaints[k])])
        found == IF validDob # 0
                 THEN Trim(dobs[validDob].house_number.s) \o " " \o Trim(dobs[validDob].street.s)
                 ELSE IF valid311 # 0 THEN Trim(complaints[valid311].incident_address.s)
                 ELSE UnknownAddress
    IN  IF found = UnknownAddress
        THEN (IF Truthy(building.base_bbl) THEN "BBL: " \o ToStr(building.base_bbl)
              ELSE "BIN: " \o ToStr(building.bin))
        ELSE found

\* boroMap[code] || ""
BoroName(code) ==
    CASE code = "1" -> "New York"
      [] code = "2" -> "Bronx"
      [] code = "3" -> "Brooklyn"
      [] code = "4" -> "Queens"
      [] code = "5" -> "Staten Island"
      [] OTHER -> ""

\* zipcode: the land-use record's, "" without one
Zipcode(doc, building) ==
    LET p == PlutoIndex(doc, building.base_bbl)
        zip == Coll(doc, "pluto_data")[p].zipcode
    IN  IF p # 0 /\ Truthy(zip) THEN zip ELSE S("")

\* borough: from the land-use record's borocode, else from the first joined structural
\* violation's boro
Borough(doc, building, dobs) ==
    LET p == PlutoIndex(doc, building.base_bbl)
        code == Coll(doc, "pluto_data")[p].borocode
        fromPluto == IF p # 0 /\ Truthy(code) THEN BoroName(ToStr(code)) ELSE ""
    IN  IF fromPluto = "" /\ Len(dobs) > 0 THEN BoroName(ToStr(dobs[1].boro)) ELSE fromPluto

RECURSIVE TrimZerosEnd(_)
TrimZerosEnd(str) ==
    IF str # "" /\ CharAt(str, Len(str)) = "0" THEN TrimZerosEnd(Substring(str, 0, Len(str) - 1))
    ELSE str

\* parseFloat(str) for an unsigned decimal: whole part and fraction digits, NaN when str
\* starts with neither a digit nor a point followed by a digit
ParseFloat(str) ==
    LET k == DigitPrefixLen(str)
        rest == Drop(str, k)
        m == IF StartsWith(rest, ".") THEN DigitPrefixLen(Drop(rest, 1)) ELSE 0
    IN  IF k = 0 /\ m = 0 THEN [nan |-> TRUE, whole |-> 0, frac |-> ""]
        ELSE [nan |-> FALSE, whole |-> DigitsToNat(Substring(str, 0, k)),
              frac |-> TrimZerosEnd(Substring(rest, 1, 1 + m))]

\* height: parseFloat(building.heightroof || "10")
Height(building) ==
    ParseFloat(IF Truthy(building.heightroof) THEN ToStr(building.heightroof) ELSE "10")

-----------------------------------------------------------------------------
(* The first score, computed and not emitted *)

HpdWeightC == 15
HpdWeightB == 8
HpdWeightA == 3
HpdWeightDefault == 2
DobWeightHigh == 25
DobWeightDefault == 10
OldAgePoints == 10
MidAgePoints == 5
MidAgeThreshold == 50
ComplaintPoints == 2
ComplaintPointsCap == 20

RECURSIVE SumOver(_)
SumOver(numbers) == IF numbers = <<>> THEN 0 ELSE Head(numbers) + SumOver(Tail(numbers))

HpdWeight(v) ==
    CASE v.class = S("C") -> HpdWeightC
      [] v.class = S("B") -> HpdWeightB
      [] v.class = S("A") -> HpdWeightA
      [] OTHER -> HpdWeightDefault

DobWeight(v) ==
    IF v.violation_type_code \in {S("UB"), S("C"), S("LL11")} THEN DobWeightHigh
    ELSE DobWeightDefault

CalculateRiskScore(dobViolations, hpdViolations, age) ==
    LET rawScore == SumOver([k \in 1..Len(hpdViolations) |-> HpdWeight(hpdViolations[k])])
                    + SumOver([k \in 1..Len(dobViolations) |-> DobWeight(dobViolations[k])])
        ageFactor == IF Len(dobViolations) + Len(hpdViolations) > 0
                     THEN (IF age > AgeThreshold THEN OldAgePoints
                           ELSE IF age > MidAgeThreshold THEN MidAgePoints ELSE 0)
                     ELSE 0
    IN  Min(ScoreCap, rawScore + ageFactor)

\* riskScore of lines 177-179
RiskScore(dobs, hpds, complaints, age) ==
    Min(ScoreCap, CalculateRiskScore(dobs, hpds, age)
                  + Min(ComplaintPointsCap, Len(complaints) * ComplaintPoints))

-----------------------------------------------------------------------------
(* The feature of one footprint: the callback of footprints.map *)

Feature(doc, building, year) ==
    LET dobs == BuildingDobViolations(doc, building)
        hpds == BuildingHpdViolations(doc, building)
        complaints == Building311Complaints(doc, building)
        hpdVios == HpdVios(doc, building)
        age == Age(building, year)
        hpdA == ClassCount(hpdVios, "A")
        hpdB == ClassCount(hpdVios, "B")
        hpdC == ClassCount(hpdVios, "C")
        hpdI == OtherClassCount(hpdVios)
    IN  [properties |->
            [id |-> building.bin,
             bin |-> building.bin,
             risk_score |-> RoundHalfPoints(NewRiskScore(hpdC, hpdB, hpdA, Len(dobs),
                                                         Len(complaints), age)),
             dob_violation_count |-> Len(dobs),
             hpd_violation_count |-> Len(hpdVios),
             complaint_311_count |-> Len(complaints),
             height |-> Height(building),
             construct_year |-> YearBuilt(building),
             address |-> Address(building, dobs, complaints),
             owner_name |-> OwnerName(doc, building),
             zipcode |-> Zipcode(doc, building),
             borough |-> Borough(doc, building, dobs),
             bbl |-> building.base_bbl,
             hpd_class_a |-> hpdA,
             hpd_class_b |-> hpdB,
             hpd_class_c |-> hpdC,
             hpd_class_i |-> hpdI,
             recent_violations |-> AllRecentViolations(dobs, hpds, complaints)],
         geometry |-> building.the_geom,
         \* locals of the callback that no property carries
         locals |-> [age |-> age, buildingHpdViolations |-> hpds, hpdVios |-> hpdVios,
                     riskScore |-> RiskScore(dobs, hpds, complaints, age),
                     recentDob |-> RecentDob(dobs), recentHpd |-> RecentHpd(hpds),
                     recent311 |-> Recent311(complaints),
                     buildingDobViolations |-> dobs, building311Complaints |-> complaints]]

\* a description that is there and is no string has no replace method
NotAString(v) == Truthy(v) /\ v.t # "str"

\* the callback throws a TypeError at v.description.replace or v.novdescription.replace
FeatureThrows(doc, building) ==
    LET dobs == MostRecent(BuildingDobViolations(doc, building), "issue_date")
        hpds == MostRecent(BuildingHpdViolations(doc, building), "novissueddate")
    IN  \/ \E k \in 1..Len(dobs) : NotAString(dobs[k].description)
        \/ \E k \in 1..Len(hpds) : NotAString(hpds[k].novdescription)

\* the per-source sorts were called on the collection itself
SortTargetItself(collection) == collection

\* the array a per-source sort is called on: what collection.filter returned, a new array
SortTarget(collection) == "filtered " \o collection

\* Array.prototype.sort sorts in place: the collection once the sort has acted
SortedInPlace(doc, collection, dateField) ==
    IF SortTarget(collection) = collection
    THEN LET records == doc[collection]
         IN  Items(SortDesc([k \in 1..Len(records) |->
                                Keyed(OrEmpty(records[k][dateField]), records[k])]))
    ELSE doc[collection]

\* rawData after the three sorts of one call of the callback
RawAfterSorts(doc) ==
    [doc EXCEPT !.dob_violations = SortedInPlace(doc, "dob_violations", "issue_date"),
                !.hpd_violations = SortedInPlace(doc, "hpd_violations", "novissueddate"),
                !.three_one_one = SortedInPlace(doc, "three_one_one", "created_date")]

-----------------------------------------------------------------------------
(* Centroids: the callback of features.map *)

NoGeom == [present |-> FALSE, type |-> "", parts |-> <<>>]

\* the_geom of type MultiPolygon with these coordinates
MultiPolygon(parts) == [present |-> TRUE, type |-> "MultiPolygon", parts |-> parts]

\* the_geom of type Polygon whose coordinates are these rings
Polygon(rings) == [present |-> TRUE, type |-> "Polygon", parts |-> <<rings>>]

\* f.geometry.coordinates[0][0] and the loop over it throw a TypeError
CentroidThrows(g) ==
    \/ ~g.present
    \/ g.parts = <<>>
    \/ g.parts[1] = <<>>
    \/ g.type = "Polygon" /\ g.parts[1][1] = <<>>

RECURSIVE SumCoord(_, _)
SumCoord(ring, axis) == IF ring = <<>> THEN 0 ELSE Head(ring)[axis] + SumCoord(Tail(ring), axis)

\* [centerX, centerY] as sums over a count; NaN when polyCoords is empty (0 / 0) or is
\* a vertex of a Polygon, whose numbers have no [0] and [1]
CentroidCoordinates(g) ==
    LET polyCoords == g.parts[1][1]
    IN  IF g.type = "Polygon" \/ polyCoords = <<>>
        THEN [nan |-> TRUE, sumX |-> 0, sumY |-> 0, count |-> 0]
        ELSE [nan |-> FALSE, sumX |-> SumCoord(polyCoords, 1),
              sumY |-> SumCoord(polyCoords, 2), count |-> Len(polyCoords)]

\* a point whose weight is the score itself
PointFeatureUnscaled(f) ==
    [properties |-> [risk_score |-> f.properties.risk_score,
                     weight |-> [num |-> f.properties.risk_score, den |-> 1]],
     geometry |-> [type |-> "Point", coordinates |-> CentroidCoordinates(f.geometry)]]

PointFeature(f) ==
    [properties |-> [risk_score |-> f.properties.risk_score,
                     weight |-> [num |-> f.properties.risk_score, den |-> ScoreCap]],
     geometry |-> [type |-> "Point", coordinates |-> CentroidCoordinates(f.geometry)]]

-----------------------------------------------------------------------------
(* processData *)

Footprints == Coll(raw, "footprints")

NoFile == [written |-> FALSE, features |-> <<>>]

\* the features from the last to the first
EmittedReversed(fs) ==
    [k \in 1..Len(fs) |-> [properties |-> fs[Len(fs) + 1 - k].properties,
                           geometry |-> fs[Len(fs) + 1 - k].geometry]]

\* JSON.stringify(geoJson): the features without the callback's locals
Emitted(fs) == [k \in 1..Len(fs) |-> [properties |-> fs[k].properties, geometry |-> fs[k].geometry]]

\* a start that goes on to the writes when there is no input file
ReadInputNoReturn ==
    /\ pc = "start"
    /\ pc' = CASE inputFile = "missing" -> "write_buildings"
               [] inputFile = "malformed" -> "thrown"
               [] OTHER -> IF Footprints = <<>> THEN "write_buildings" ELSE "map"
    /\ UNCHANGED <<inputFile, raw, currentYear, features, pointFeatures, buildingsFile, pointsFile,
                 fetch, rawDataFile, search>>

\* existsSync, readFileSync, JSON.parse and the destructuring
ReadInput ==
    /\ pc = "start"
    /\ pc' = CASE inputFile = "missing" -> "returned"
               [] inputFile = "malformed" -> "thrown"
               [] OTHER -> IF Footprints = <<>> THEN "write_buildings" ELSE "map"
    /\ UNCHANGED <<inputFile, raw, currentYear, features, pointFeatures, buildingsFile, pointsFile,
                 fetch, rawDataFile, search>>

\* one call of the footprints.map callback
MapFootprint ==
    /\ pc = "map"
    /\ LET building == Footprints[Len(features) + 1]
       IN  IF FeatureThrows(raw, building)
           THEN /\ pc' = "thrown"
                /\ UNCHANGED features
           ELSE /\ features' = Append(features, Feature(raw, building, currentYear))
                /\ pc' = IF Len(features') = Len(Footprints) THEN "centroids" ELSE "map"
    /\ raw' = RawAfterSorts(raw)
    /\ UNCHANGED <<inputFile, currentYear, pointFeatures, buildingsFile, pointsFile,
                 fetch, rawDataFile, search>>

\* one call of the features.map callback
MapCentroid ==
    /\ pc = "centroids"
    /\ LET f == features[Len(pointFeatures) + 1]
       IN  IF CentroidThrows(f.geometry)
           THEN /\ pc' = "thrown"
                /\ UNCHANGED pointFeatures
           ELSE /\ pointFeatures' = Append(pointFeatures, PointFeature(f))
                /\ pc' = IF Len(pointFeatures') = Len(features)
                         THEN "write_buildings" ELSE "centroids"
    /\ UNCHANGED <<inputFile, raw, currentYear, features, buildingsFile, pointsFile,
                 fetch, rawDataFile, search>>

\* fs.writeFileSync(OUTPUT_FILE, ...)
WriteBuildings ==
    /\ pc = "write_buildings"
    /\ buildingsFile' = [written |-> TRUE, features |-> Emitted(features)]
    /\ pc' = "write_points"
    /\ UNCHANGED <<inputFile, raw, currentYear, features, pointFeatures, pointsFile,
                 fetch, rawDataFile, search>>

\* fs.writeFileSync(.../risk_points.geojson, ...)
WritePoints ==
    /\ pc = "write_points"
    /\ pointsFile' = [written |-> TRUE, features |-> pointFeatures]
    /\ pc' = "done"
    /\ UNCHANGED <<inputFile, raw, currentYear, features, pointFeatures, buildingsFile,
                 fetch, rawDataFile, search>>

\* the calendar year changes while the footprints are mapped
NewYear ==
    /\ pc = "map"
    /\ currentYear < StartYear + MaxYearsPassing
    /\ currentYear' = currentYear + 1
    /\ UNCHANGED <<inputFile, raw, pc, features, pointFeatures, buildingsFile, pointsFile,
                 fetch, rawDataFile, search>>

Next == ReadInput \/ MapFootprint \/ MapCentroid \/ WriteBuildings \/ WritePoints \/ NewYear

-----------------------------------------------------------------------------
(* Records of the input document *)

Dob(bin, issueDate, description) ==
    [bin |-> bin, issue_date |-> issueDate, description |-> description,
     violation_type_code |-> S("C"), house_number |-> U, street |-> U, boro |-> U]

\* the structural violation with the address fields filled
DobAt(dob, house, street, boro) ==
    [dob EXCEPT !.house_number = house, !.street = street, !.boro = boro]

Hpd(boroid, block, lot, class, issued, description) ==
    [boroid |-> boroid, block |-> block, lot |-> lot, class |-> class,
     novissueddate |-> issued, novdescription |-> description]

Complaint(bbl, created, type, descriptor) ==
    [bbl |-> bbl, created_date |-> created, complaint_type |-> type, descriptor |-> descriptor,
     incident_address |-> U]

ComplaintAt(complaint, address) == [complaint EXCEPT !.incident_address = address]

Footprint(bin, bbl, geom, year) ==
    [bin |-> bin, base_bbl |-> bbl, the_geom |-> geom, cnstrct_yr |-> year, heightroof |-> U]

FootprintOfHeight(fp, height) == [fp EXCEPT !.heightroof = height]

Pluto(bbl, ownername) == [bbl |-> bbl, ownername |-> ownername, zipcode |-> U, borocode |-> U]

PlutoAt(pluto, zipcode, borocode) == [pluto EXCEPT !.zipcode = zipcode, !.borocode = borocode]

Registration(bin, regId) == [bin |-> bin, registrationid |-> regId]

Contact(regId, type, first, last, corp) ==
    [registrationid |-> regId, type |-> S(type), firstname |-> first, lastname |-> last,
     corporationname |-> corp]

EmptyDoc ==
    [absent |-> {}, dob_violations |-> <<>>, hpd_violations |-> <<>>, three_one_one |-> <<>>,
     footprints |-> <<>>, pluto_data |-> <<>>, hpd_registrations |-> <<>>, hpd_contacts |-> <<>>]

SquareRing == <<(<<0, 0>>), (<<4, 0>>), (<<4, 4>>), (<<0, 4>>), (<<0, 0>>)>>

Square == MultiPolygon(<< <<SquareRing>> >>)

Copies(k, x) == [j \in 1..k |-> x]

\* a response body that is not an array (an error object, or nothing yet)
NoBody == [array |-> FALSE, items |-> <<>>]

\* searchTimeout.current when no timer is waiting
NoTimer == [pending |-> FALSE, val |-> ""]

\* fetchData has not been started: the state of every run of processData
FetchNotRun ==
    [pc |-> "notrun", hpdData |-> NoBody, dobManhattanData |-> NoBody, dobBronxData |-> NoBody,
     dobBrooklynData |-> NoBody, threeOneOneData |-> NoBody, allDobData |-> <<>>,
     targetBins |-> <<>>, footprints |-> <<>>, uniqueBbls |-> <<>>, plutoData |-> <<>>,
     uniqueBins |-> <<>>, hpdRegistrations |-> <<>>, uniqueRegIds |-> <<>>,
     hpdContacts |-> <<>>, evictions |-> <<>>, i |-> 0, requests |-> <<>>, failures |-> 0]

\* raw_data.json before fetchData has written it
NoRawData == [writes |-> 0, output |-> [generated |-> FALSE]]

\* the search box before it is mounted
SearchUnmounted ==
    [mounted |-> FALSE, query |-> "", results |-> <<>>, loading |-> FALSE,
     searchTimeout |-> NoTimer, calls |-> <<>>, typed |-> 0]

InitRun ==
    /\ currentYear = StartYear
    /\ pc = "start"
    /\ features = <<>>
    /\ pointFeatures = <<>>
    /\ buildingsFile = NoFile
    /\ pointsFile = NoFile
    /\ fetch = FetchNotRun
    /\ rawDataFile = NoRawData
    /\ search = SearchUnmounted

-----------------------------------------------------------------------------
(* Documents for the score: one building, so many records of every kind *)

MaxClassC == 2
MaxClassOther == 1
MaxDob == 3
HeavyDob == 18
MaxComplaints == 3

Bin1 == S("1000001")
Bbl1 == S("1000050023")
Bin2 == S("1000002")
Bbl2 == S("1000050024")

YearChoices ==
    {U, S("abc"), S("0"), S(NatToStr(StartYear + 5)),
     S(NatToStr(StartYear - AgeThreshold)), S(NatToStr(StartYear - AgeThreshold - 1)),
     S(NatToStr(StartYear - 90))}

ScoreHpd(class) == Hpd(S("1"), S("5"), S("23"), class, S("2024-03-01T00:00:00.000"), S("LEAK"))

ScoreDoc(nC, nB, nA, nI, nD, nX, yr) ==
    [EmptyDoc EXCEPT
        !.footprints = <<Footprint(Bin1, Bbl1, Square, yr)>>,
        \* the last record of every collection belongs to another building
        !.dob_violations = Copies(nD, Dob(Bin1, S("20240115"), S("(1) CRACK")))
                           \o <<Dob(Bin2, S("20240116"), S("(2) BOILER"))>>,
        !.hpd_violations = Copies(nC, ScoreHpd(S("C"))) \o Copies(nB, ScoreHpd(S("B")))
                           \o Copies(nA, ScoreHpd(S("A"))) \o Copies(nI, ScoreHpd(S("I")))
                           \o <<Hpd(S("1"), S("5"), S("24"), S("C"),
                                    S("2024-03-02T00:00:00.000"), S("MOLD"))>>,
        !.three_one_one = Copies(nX, Complaint(Bbl1, S("2024-02-01T10:00:00.000"),
                                               S("PLUMBING"), S("LEAK")))
                          \o <<Complaint(Bbl2, S("2024-02-02T10:00:00.000"),
                                         S("PLUMBING"), S("LEAK"))>>]

InitScore ==
    /\ inputFile = "ok"
    /\ \/ \E nC \in 0..MaxClassC, nB \in 0..MaxClassOther, nA \in 0..MaxClassOther,
             nI \in 0..MaxClassOther, nD \in 0..MaxDob, nX \in 0..MaxComplaints,
             yr \in YearChoices :
               raw = ScoreDoc(nC, nB, nA, nI, nD, nX, yr)
       \* buildings at the cap: HeavyDob structural violations and more
       \/ \E nC \in 0..MaxClassOther, nD \in 0..MaxDob, nX \in 0..MaxComplaints,
             yr \in YearChoices :
               raw = ScoreDoc(nC, 0, 0, 0, HeavyDob + nD, nX, yr)
    /\ InitRun

SpecScore == InitScore /\ [][Next]_vars

-----------------------------------------------------------------------------
(* Documents for the composite key: one maintenance record, one footprint *)

BoroChoices == {U, S("1"), N(1), S("M")}

BlockChoices == {U, S(""), S("5"), N(5), N(0), S("00005"), S("123456"), S("AB")}

LotChoices == {U, S("23"), N(23), S("0023"), S("12345"), S("2A")}

IssuedChoices == {U, S("2024-03-01T00:00:00.000")}

\* land-lot ids a footprint may carry: the regular one, ones that key fragments out of
\* their width or alphabet add up to, a number, none
BblChoices ==
    {U, Bbl1, N(1000050023), S("1000000023"), S("11234560023"), S("1000AB0023"),
     S("10000512345")}

KeyDoc(boro, block, lot, issued, bbl) ==
    [EmptyDoc EXCEPT
        !.footprints = <<Footprint(Bin1, bbl, Square, S("1990"))>>,
        !.hpd_violations = <<Hpd(boro, block, lot, S("C"), issued, S("LEAK"))>>]

InitKey ==
    /\ inputFile = "ok"
    /\ \E boro \in BoroChoices, block \in BlockChoices, lot \in LotChoices,
          issued \in IssuedChoices, bbl \in BblChoices :
            raw = KeyDoc(boro, block, lot, issued, bbl)
    /\ InitRun

SpecKey == InitKey /\ [][Next]_vars

-----------------------------------------------------------------------------
(* Documents for the owner: one footprint, its land-use record, links and contacts *)

MaxContacts == 2

ContactChoices ==
    {Contact(S("R1"), "HeadOfficer", S("Hal"), S("Ho"), U),
     Contact(S("R1"), "HeadOfficer", U, S("Ho"), U),
     Contact(S("R1"), "IndividualOwner", S("Ivy"), S("Io"), U),
     Contact(S("R1"), "IndividualOwner", S("Ian"), S(""), U),
     Contact(S("R1"), "SiteManager", S("Sam"), S("Sm"), U),
     Contact(S("R1"), "SiteManager", U, S("Sm"), U),
     Contact(S("R1"), "CorporateOwner", U, U, S("ACME LLC")),
     Contact(S("R1"), "CorporateOwner", U, U, U),
     Contact(S("R1"), "Agent", S("Al"), S("Ag"), U),
     Contact(S("R2"), "IndividualOwner", S("Zed"), S("Zz"), U)}

ContactLists == UNION {[1..k -> ContactChoices] : k \in 0..MaxContacts}

PlutoChoices ==
    {<<>>,
     <<Pluto(Bbl1, S("LANDLORD INC"))>>,
     <<Pluto(Bbl1, U)>>,
     <<Pluto(N(1000050023), S("LANDLORD INC"))>>,
     <<Pluto(Bbl2, S("OTHER INC")), Pluto(Bbl1, S("LANDLORD INC"))>>}

RegistrationChoices ==
    {<<>>,
     <<Registration(Bin1, S("R1"))>>,
     <<Registration(Bin2, S("R1"))>>,
     <<Registration(Bin1, S("R2")), Registration(Bin1, S("R1"))>>}

OwnerDoc(bbl, pluto, regs, contacts) ==
    [EmptyDoc EXCEPT
        !.footprints = <<Footprint(Bin1, bbl, Square, S("1990"))>>,
        !.pluto_data = pluto,
        !.hpd_registrations = regs,
        !.hpd_contacts = contacts]

InitOwner ==
    /\ inputFile = "ok"
    /\ \E bbl \in {U, Bbl1}, pluto \in PlutoChoices, regs \in RegistrationChoices,
          contacts \in ContactLists :
            raw = OwnerDoc(bbl, pluto, regs, contacts)
    /\ InitRun

SpecOwner == InitOwner /\ [][Next]_vars

-----------------------------------------------------------------------------
(* Documents for the activity feed: one building, its records of every source with  *)
(* equal dates, equal descriptions, missing and truncated dates                     *)

MaxFeedLen == 2

FeedHpd(class, issued, description) == Hpd(S("1"), S("5"), S("23"), S(class), issued, description)

DobFeedChoices ==
    {Dob(Bin1, S("20240301"), S("(1) LEAK")),
     Dob(Bin1, S("20240115"), S("(22) CRACK IN WALL"))}

DobFeedPresets ==
    {<<Dob(Bin1, S("20231201"), S("FACADE")), Dob(Bin1, U, S("NO DATE")),
       Dob(Bin1, S("20240301"), S("(2) LEAK")), Dob(Bin1, S("20240301"), S("BOILER"))>>,
     <<Dob(Bin1, S("2024"), S("SHORT DATE")), Dob(Bin1, U, U),
       Dob(Bin1, S("20240301"), S("PLUMBING: LEAK"))>>,
     <<Dob(Bin1, S("20240115"), S("CRACK")), Dob(Bin1, S("20240301"), S("(1) SCAFFOLD")),
       Dob(Bin1, S("20240210"), S("SECTION 27-2005 REPAIR THE ROOF"))>>,
     <<Dob(Bin1, S("20230101"), S("SIGN")), Dob(Bin1, S("20240301"), S("FENCE")),
       Dob(Bin1, S("20240115"), S("SHED")), Dob(Bin1, S("20240210"), S("CRANE"))>>}

HpdFeedChoices ==
    {FeedHpd("C", S("2024-03-01T00:00:00.000"), S(SectionSign \o " 27-2005 ADM CODE: LEAK")),
     FeedHpd("B", S("2024-02-10T00:00:00.000"), S("SECTION 27-2005 REPAIR THE WALL"))}

HpdFeedPresets ==
    {<<FeedHpd("A", S("2024-03"), S("01-LEAK")), FeedHpd("C", S("2024-03-01T00:00:00.000"), S("LEAK"))>>,
     <<FeedHpd("B", S("2024-03-01T08:00:00.000"), S("PAINT")),
       FeedHpd("B", S("2024-03-01T09:00:00.000"), S("MOLD")),
       FeedHpd("A", U, S("HEAT")),
       FeedHpd("C", S("2024-04-01T00:00:00.000"), S("PLUMBING: LEAK"))>>,
     <<FeedHpd("A", S("2024-01-15T00:00:00.000"), S("MICE")),
       FeedHpd("B", S("2024-03-01T00:00:00.000"), S("ROACHES")),
       FeedHpd("C", S("2024-02-10T00:00:00.000"), S(SectionSign \o " 27-2031 HMC: NO HOT WATER"))>>}

ComplaintFeedChoices ==
    {Complaint(Bbl1, S("2024-03-01T10:00:00.000"), S("PLUMBING"), S("LEAK")),
     Complaint(Bbl1, S("2024-01-15T07:30:00.000"), S("HEAT/HOT WATER"), S("ENTIRE BUILDING"))}

ComplaintFeedPresets ==
    {<<Complaint(Bbl1, U, S("NOISE"), S("LOUD MUSIC")),
       Complaint(Bbl1, S("2024-04-01T12:00:00.000"), S("PLUMBING"), S("LEAK")),
       Complaint(Bbl1, S("2023-12-01T12:00:00.000"), S("ELEVATOR"), U),
       Complaint(Bbl1, S("2024-04-01T13:00:00.000"), S("PLUMBING"), S("LEAK"))>>,
     <<Complaint(Bbl1, S("2024-02-10T10:00:00.000"), S("UNSANITARY CONDITION"), S("PESTS IN KITCHEN")),
       Complaint(Bbl1, S("2024-02-10T11:00:00.000"), S("UNSANITARY CONDITION"), S("PESTS IN BASEMENT"))>>,
     <<Complaint(Bbl1, S("2024-03-01T10:00:00.000"), S("ELEVATOR"), S("STUCK")),
       Complaint(Bbl1, S("2024-01-15T10:00:00.000"), S("DOOR/WINDOW"), S("BROKEN")),
       Complaint(Bbl1, S("2024-02-10T10:00:00.000"), S("GENERAL"), S("MAILBOX"))>>}

FeedLists(choices, presets) == presets \cup UNION {[1..k -> choices] : k \in 0..MaxFeedLen}

FeedDoc(dobs, hpds, complaints) ==
    [EmptyDoc EXCEPT
        !.footprints = <<Footprint(Bin1, Bbl1, Square, S("1990"))>>,
        !.dob_violations = dobs,
        !.hpd_violations = hpds,
        !.three_one_one = complaints]

InitFeed ==
    /\ inputFile = "ok"
    /\ \E dobs \in FeedLists(DobFeedChoices, DobFeedPresets),
          hpds \in FeedLists(HpdFeedChoices, HpdFeedPresets),
          complaints \in FeedLists(ComplaintFeedChoices, ComplaintFeedPresets) :
            raw = FeedDoc(dobs, hpds, complaints)
    /\ InitRun

SpecFeed == InitFeed /\ [][Next]_vars

-----------------------------------------------------------------------------
(* Documents for the run as a whole: footprints with and without land-lot id and     *)
(* geometry; every other collection absent, empty or filled; the file itself missing *)
(* or malformed                                                                      *)

MaxFootprints == 2

Bin3 == S("1000003")
Bin4 == S("1000004")

FootprintChoices ==
    {FootprintOfHeight(Footprint(Bin1, Bbl1, Square, S("1930")), S("32.50")),
     Footprint(Bin2, U, Square, S("1930")),
     Footprint(Bin3, Bbl2, NoGeom, S("2001")),
     Footprint(Bin4, Bbl1, MultiPolygon(<<>>), U)}

FootprintLists == UNION {[1..k -> FootprintChoices] : k \in 0..MaxFootprints}

FullDob ==
    <<Dob(Bin1, S("20240115"), S("(1) CRACK")),
      DobAt(Dob(Bin2, S("20230601"), S("BOILER")), S("12 "), S("MAIN ST"), S("2")),
      DobAt(Dob(Bin1, U, U), S("7"), S(" "), U)>>

\* a regular record of land-lot Bbl1, one without any key fragment, one without block,
\* one without issue date
FullHpd ==
    <<Hpd(S("1"), S("5"), S("23"), S("C"), S("2024-03-01T00:00:00.000"), S(SectionSign \o " 27-2005 ADM CODE: LEAK")),
      Hpd(U, U, U, S("B"), S("2024-03-02T00:00:00.000"), S("MOLD")),
      Hpd(S("1"), U, S("23"), S("A"), S("2024-03-03T00:00:00.000"), U),
      Hpd(S("1"), N(5), N(23), U, U, S("PAINT"))>>

\* a complaint of land-lot Bbl1, one without bbl, one with an empty bbl
FullComplaints ==
    <<ComplaintAt(Complaint(Bbl1, S("2024-02-01T10:00:00.000"), S("PLUMBING"), S("LEAK")),
                  S(" 5 ELM AVE")),
      Complaint(U, S("2024-02-02T10:00:00.000"), S("HEAT/HOT WATER"), U),
      Complaint(S(""), U, S("PAINT/PLASTER"), S("CEILING"))>>

Fill == {"absent", "empty", "full"}

RunDoc(fps, dob, hpd, complaints, owners) ==
    [absent |-> (IF dob = "absent" THEN {"dob_violations"} ELSE {})
                \cup (IF hpd = "absent" THEN {"hpd_violations"} ELSE {})
                \cup (IF complaints = "absent" THEN {"three_one_one"} ELSE {})
                \cup (IF owners = "absent"
                      THEN {"pluto_data", "hpd_registrations", "hpd_contacts"} ELSE {})
                \cup (IF fps = <<>> THEN {"footprints"} ELSE {}),
     footprints |-> fps,
     dob_violations |-> IF dob = "full" THEN FullDob ELSE <<>>,
     hpd_violations |-> IF hpd = "full" THEN FullHpd ELSE <<>>,
     three_one_one |-> IF complaints = "full" THEN FullComplaints ELSE <<>>,
     pluto_data |-> IF owners = "full"
                    THEN <<PlutoAt(Pluto(Bbl1, S("LANDLORD INC")), S("10002"), N(1))>> ELSE <<>>,
     hpd_registrations |-> IF owners = "full" THEN <<Registration(Bin1, S("R1"))>> ELSE <<>>,
     hpd_contacts |-> IF owners = "full"
                      THEN <<Contact(S("R1"), "SiteManager", S("Sam"), S("Sm"), U)>> ELSE <<>>]

Init ==
    /\ \/ /\ inputFile = "ok"
          /\ \E fps \in FootprintLists, dob \in Fill, hpd \in Fill, complaints \in Fill,
                owners \in Fill :
                  raw = RunDoc(fps, dob, hpd, complaints, owners)
       \/ /\ inputFile \in {"missing", "malformed"}
          /\ raw = EmptyDoc
    /\ InitRun

Spec == Init /\ [][Next]_vars

-----------------------------------------------------------------------------
(* Documents for the runs that abort: the file missing or malformed, a footprint     *)
(* without geometry, a structural violation whose description is a number            *)

MaxAbortFootprints == 3

Bin5 == S("1000005")

AbortFootprintChoices ==
    {Footprint(Bin1, Bbl1, Square, S("1930")),
     Footprint(Bin3, Bbl2, NoGeom, S("2001")),
     Footprint(Bin5, Bbl1, Square, S("1990"))}

AbortFootprintLists == UNION {[1..k -> AbortFootprintChoices] : k \in 0..MaxAbortFootprints}

AbortDoc(fps) ==
    [EmptyDoc EXCEPT
        !.footprints = fps,
        !.dob_violations = FullDob \o <<Dob(Bin5, S("20240101"), N(404)),
                                        Dob(Bin1, S("20240220"), S("GUARDRAIL"))>>,
        !.hpd_violations = FullHpd,
        !.three_one_one = FullComplaints]

InitAbort ==
    /\ \/ /\ inputFile = "ok"
          /\ \E fps \in AbortFootprintLists : raw = AbortDoc(fps)
       \/ /\ inputFile \in {"missing", "malformed"}
          /\ raw = EmptyDoc
    /\ InitRun

SpecAbort == InitAbort /\ [][Next]_vars

-----------------------------------------------------------------------------
(* Documents for the classes: one building, maintenance violations of the scored     *)
(* classes and of others, among them one without class and one in lower case         *)

MaxUnscored == 2

UnscoredClassChoices == {S("I"), U, S("c")}

UnscoredLists == UNION {[1..k -> UnscoredClassChoices] : k \in 0..MaxUnscored}

ClassDoc(nC, nB, nA, others, nD, nX, yr) ==
    [EmptyDoc EXCEPT
        !.footprints = <<Footprint(Bin1, Bbl1, Square, yr)>>,
        !.dob_violations = Copies(nD, Dob(Bin1, S("20240115"), S("(1) CRACK"))),
        !.hpd_violations = [k \in 1..Len(others) |-> ScoreHpd(others[k])]
                           \o Copies(nC, ScoreHpd(S("C"))) \o Copies(nB, ScoreHpd(S("B")))
                           \o Copies(nA, ScoreHpd(S("A"))),
        !.three_one_one = Copies(nX, Complaint(Bbl1, S("2024-02-01T10:00:00.000"),
                                               S("PLUMBING"), S("LEAK")))]

InitClass ==
    /\ inputFile = "ok"
    /\ \E nC \in 0..MaxClassOther, nA \in 0..MaxClassOther, others \in UnscoredLists,
          nD \in 0..MaxClassOther, yr \in {S("1930"), S("1990")} :
            raw = ClassDoc(nC, nA, nA, others, nD, nD, yr)
    /\ InitRun

SpecClass == InitClass /\ [][Next]_vars

-----------------------------------------------------------------------------
(* Documents for the centroids: footprints of either geometry type, with holes and  *)
(* with further parts, and without geometry                                         *)

MaxGeoFootprints == 2

HoleRing == <<(<<1, 1>>), (<<2, 1>>), (<<2, 2>>), (<<1, 1>>)>>

FarRing == <<(<<10, 10>>), (<<12, 10>>), (<<12, 13>>), (<<10, 10>>)>>

\* a square with a hole and a second part
HoledTwoParts == MultiPolygon(<< <<SquareRing, HoleRing>>, <<FarRing>> >>)

GeoFootprintChoices ==
    {Footprint(Bin1, Bbl1, Square, S("1930")),
     Footprint(Bin2, Bbl2, HoledTwoParts, S("1990")),
     Footprint(Bin3, U, Polygon(<<SquareRing>>), S("1930")),
     Footprint(Bin4, Bbl1, Polygon(<<FarRing, HoleRing>>), U),
     Footprint(Bin2, Bbl1, MultiPolygon(<< <<FarRing>>, <<SquareRing>> >>), S("1930")),
     Footprint(Bin3, Bbl2, NoGeom, S("2001"))}

GeoFootprintLists == UNION {[1..k -> GeoFootprintChoices] : k \in 1..MaxGeoFootprints}

InitGeo ==
    /\ inputFile = "ok"
    /\ \E fps \in GeoFootprintLists, records \in {"empty", "full"} :
          raw = RunDoc(fps, records, records, records, "empty")
    /\ InitRun

SpecGeo == InitGeo /\ [][Next]_vars

-----------------------------------------------------------------------------
(* Properties *)

Props(k) == features[k].properties

\* C1: every risk_score that processData computes, and every one it writes, is an
\* integer n with 0 <= n <= 100
C1_RiskScoreInRange ==
    /\ \A k \in 1..Len(features) : Props(k).risk_score \in 0..ScoreCap
    /\ \A k \in 1..Len(buildingsFile.features) :
          buildingsFile.features[k].properties.risk_score \in 0..ScoreCap

\* a building whose weighted counts alone exceed 100 has been written with score 100
C1_Witness ==
    /\ pc = "done"
    /\ \E k \in 1..Len(buildingsFile.features) :
          /\ buildingsFile.features[k].properties.dob_violation_count > 20
          /\ buildingsFile.features[k].properties.risk_score = ScoreCap

\* s as 2*s, from the emitted counts and the age: 3C + 2B + A + 5D + X/2, plus 5 when
\* age > 80 and that sum is positive
TwiceS(p, age) ==
    LET sum == 6 * p.hpd_class_c + 4 * p.hpd_class_b + 2 * p.hpd_class_a
               + 10 * p.dob_violation_count + p.complaint_311_count
    IN  IF age > 80 /\ sum > 0 THEN sum + 10 ELSE sum

TwiceClamped(x) == IF x < 0 THEN 0 ELSE IF x > 200 THEN 200 ELSE x

\* C2: risk_score is clamp(s, 0, 100) rounded to the nearest integer, halves up: the
\* integer n with n - 1/2 <= clamp(s) < n + 1/2; and C=2, B=0, A=0, D=1, X=3, age=90
\* gives 18
C2_ScoreFormula ==
    \A k \in 1..Len(features) :
        LET p == Props(k)
            c == TwiceClamped(TwiceS(p, features[k].locals.age))
        IN  /\ 2 * p.risk_score - 1 <= c
            /\ c < 2 * p.risk_score + 1
            /\ (/\ p.hpd_class_c = 2 /\ p.hpd_class_b = 0 /\ p.hpd_class_a = 0
                /\ p.dob_violation_count = 1 /\ p.complaint_311_count = 3
                /\ features[k].locals.age = 90) => p.risk_score = 18

\* the building of the example has been scored
C2_Witness ==
    \E k \in 1..Len(features) :
        /\ Props(k).hpd_class_c = 2 /\ Props(k).hpd_class_b = 0 /\ Props(k).hpd_class_a = 0
        /\ Props(k).dob_violation_count = 1 /\ Props(k).complaint_311_count = 3
        /\ features[k].locals.age = 90
        /\ Props(k).risk_score = 18

\* C3: a building with no structural violation, no counted maintenance violation and no
\* complaint has risk_score 0, whatever its age
C3_ZeroRecordZeroScore ==
    \A k \in 1..Len(features) :
        (/\ Props(k).dob_violation_count = 0
         /\ Props(k).hpd_violation_count = 0
         /\ Props(k).complaint_311_count = 0) => Props(k).risk_score = 0

\* a building older than 80 years with nothing joined has been scored 0
C3_Witness ==
    \E k \in 1..Len(features) :
        /\ Props(k).dob_violation_count = 0
        /\ Props(k).hpd_violation_count = 0
        /\ Props(k).complaint_311_count = 0
        /\ features[k].locals.buildingHpdViolations = <<>>
        /\ features[k].locals.age > AgeThreshold
        /\ Props(k).risk_score = 0

HpdViolations == Coll(raw, "hpd_violations")

\* str with zeros put in front of it until it is w characters long
RECURSIVE LeftZeroFill(_, _)
LeftZeroFill(str, w) == IF Len(str) >= w THEN str ELSE LeftZeroFill("0" \o str, w)

BoroughDigits == {S(Digits[d + 1]) : d \in 1..5} \cup {N(d) : d \in 1..5}

FragmentsPresent(v) == v.boroid \in BoroughDigits /\ v.block.t # "undef" /\ v.lot.t # "undef"

ExpectedKey(v) == ToStr(v.boroid) \o LeftZeroFill(ToStr(v.block), 5) \o LeftZeroFill(ToStr(v.lot), 4)

InSeq(x, seq) == \E k \in 1..Len(seq) : seq[k] = x

\* C4: with borough digit, block and lot present, both places that build the key build
\* borough + block zero-filled to 5 + lot zero-filled to 4, from strings and from numbers
\* alike, and the record is joined to exactly the footprint with that land-lot id;
\* borough 1, block 5, lot 23 gives "1000050023"
C4_CompositeKey ==
    /\ \A j \in 1..Len(HpdViolations) :
          LET v == HpdViolations[j]
          IN  FragmentsPresent(v) =>
                /\ JoinKey(v) = S(ExpectedKey(v))
                /\ CountKey(v) = S(ExpectedKey(v))
                /\ \A k \in 1..Len(features) :
                      /\ InSeq(v, features[k].locals.buildingHpdViolations)
                            <=> Props(k).bbl = S(ExpectedKey(v))
                      /\ InSeq(v, features[k].locals.hpdVios)
                            <=> (Truthy(v.novissueddate) /\ Props(k).bbl = S(ExpectedKey(v)))
                /\ (v.boroid \in {S("1"), N(1)} /\ v.block \in {S("5"), N(5)}
                    /\ v.lot \in {S("23"), N(23)})
                      => JoinKey(v) = S("1000050023") /\ CountKey(v) = S("1000050023")

\* the record with the numbers 1, 5 and 23 has been joined to the footprint of land-lot
\* "1000050023" and written
C4_Witness ==
    /\ pc = "done"
    /\ \E j \in 1..Len(HpdViolations) :
          /\ HpdViolations[j].boroid = N(1)
          /\ HpdViolations[j].block = N(5)
          /\ HpdViolations[j].lot = N(23)
          /\ InSeq(HpdViolations[j], features[1].locals.buildingHpdViolations)
    /\ buildingsFile.features[1].properties.bbl = S("1000050023")
    /\ buildingsFile.features[1].properties.hpd_violation_count = 1

\* a fragment that is there, numeric and no longer than its field
WellFormedFragment(x, w) ==
    /\ x.t \in {"str", "num"}
    /\ ToStr(x) # ""
    /\ AllDigits(ToStr(x))
    /\ Len(ToStr(x)) <= w

WellFormedRecord(v) ==
    /\ WellFormedFragment(v.boroid, 1)
    /\ WellFormedFragment(v.block, 5)
    /\ WellFormedFragment(v.lot, 4)

\* C5: a maintenance record yields a key of exactly 10 characters when its fragments are
\* well formed and no key otherwise, and a record without a key is matched to no
\* footprint
C5_TenCharactersOrNoKey ==
    \A k \in 1..Len(features) : \A j \in 1..Len(HpdViolations) :
        LET v == HpdViolations[j]
        IN  /\ (Truthy(Props(k).bbl) /\ JoinKey(v) # U)
                  => Len(JoinKey(v).s) = 10 /\ WellFormedRecord(v)
            /\ (InSeq(v, features[k].locals.buildingHpdViolations)
                \/ InSeq(v, features[k].locals.hpdVios))
                  => WellFormedRecord(v) /\ Len(ToStr(Props(k).bbl)) = 10

\* the contacts of the registration of footprint k
RegistrationContacts(k) == ContactsOf(raw, Footprints[k].bin)

HasNames(c) == Truthy(c.firstname) /\ Truthy(c.lastname)

\* the first contact of a type in arrival order, as a set: empty when there is none
FirstOfType(cs, type) ==
    {j \in 1..Len(cs) : cs[j].type = S(type) /\ \A m \in 1..(j - 1) : cs[m].type # S(type)}

\* the contacts that qualify at a level of the chain, the first contact of every type
\* standing for its type
Level1(cs) ==
    {j \in FirstOfType(cs, "HeadOfficer") \cup FirstOfType(cs, "IndividualOwner") : HasNames(cs[j])}
Level2(cs) == {j \in FirstOfType(cs, "SiteManager") : HasNames(cs[j])}
Level3(cs) == {j \in FirstOfType(cs, "CorporateOwner") : Truthy(cs[j].corporationname)}

FullName(c, tag) == S(ToStr(c.firstname) \o " " \o ToStr(c.lastname) \o tag)

\* the land-use records of footprint k's land-lot id
LandUse(k) ==
    {j \in 1..Len(Coll(raw, "pluto_data")) :
        LooseEq(Coll(raw, "pluto_data")[j].bbl, Footprints[k].base_bbl)}

\* C6: the owner is taken from the highest level of the chain at which a contact of the
\* building's registration qualifies: named officer or individual owner "(Reg)", named
\* site manager "(Mgr)", corporate owner's corporation name, land-use owner name
C6_OwnerPriorityChain ==
    \A k \in 1..Len(features) :
        LET cs == RegistrationContacts(k)
            owner == Props(k).owner_name
        IN  /\ Level1(cs) # {} => \E j \in Level1(cs) : owner = FullName(cs[j], " (Reg)")
            /\ (Level1(cs) = {} /\ Level2(cs) # {})
                  => \E j \in Level2(cs) : owner = FullName(cs[j], " (Mgr)")
            /\ (Level1(cs) = {} /\ Level2(cs) = {} /\ Level3(cs) # {})
                  => \E j \in Level3(cs) : owner = cs[j].corporationname
            /\ (Level1(cs) = {} /\ Level2(cs) = {} /\ Level3(cs) = {} /\ LandUse(k) # {})
                  => \E j \in LandUse(k) : owner = Coll(raw, "pluto_data")[j].ownername

\* C7: owner_name is always a non-empty string, and it is "Unknown Owner" when no
\* contact qualifies and there is no land-use record or none with an owner name
C7_OwnerNameOrSentinel ==
    \A k \in 1..Len(features) :
        LET cs == RegistrationContacts(k)
            owner == Props(k).owner_name
        IN  /\ owner.t = "str" /\ owner.s # ""
            /\ (/\ Level1(cs) = {} /\ Level2(cs) = {} /\ Level3(cs) = {}
                /\ \A j \in LandUse(k) : ~Truthy(Coll(raw, "pluto_data")[j].ownername))
                  => owner = S("Unknown Owner")

ZeroMaintenanceAndComplaints(p) ==
    /\ p.hpd_violation_count = 0
    /\ p.hpd_class_a = 0 /\ p.hpd_class_b = 0 /\ p.hpd_class_c = 0 /\ p.hpd_class_i = 0
    /\ p.complaint_311_count = 0

\* C8: a footprint without land-lot id gets its feature, geometry and building id kept,
\* with no maintenance violation and no complaint counted, whatever the collections
\* hold; the feature is in the polygon output of a run that completes
C8_NoLandLotIdZeroCounts ==
    /\ pc \in {"centroids", "write_buildings", "write_points", "done"}
          => Len(features) = Len(Footprints)
    /\ \A k \in 1..Len(features) :
          Footprints[k].base_bbl = U =>
            /\ Props(k).bin = Footprints[k].bin
            /\ features[k].geometry = Footprints[k].the_geom
            /\ ZeroMaintenanceAndComplaints(Props(k))
    /\ pc = "done" =>
          /\ Len(buildingsFile.features) = Len(Footprints)
          /\ \A k \in 1..Len(Footprints) :
                Footprints[k].base_bbl = U =>
                  /\ buildingsFile.features[k].properties.bin = Footprints[k].bin
                  /\ buildingsFile.features[k].geometry = Footprints[k].the_geom
                  /\ ZeroMaintenanceAndComplaints(buildingsFile.features[k].properties)

\* a footprint without land-lot id has been written with zero counts from a document
\* whose maintenance violations and complaints include records without key or bbl
C8_Witness ==
    /\ pc = "done"
    /\ Coll(raw, "hpd_violations") = FullHpd
    /\ Coll(raw, "three_one_one") = FullComplaints
    /\ \E k \in 1..Len(Footprints) :
          /\ Footprints[k].base_bbl = U
          /\ buildingsFile.features[k].geometry = Square
          /\ ZeroMaintenanceAndComplaints(buildingsFile.features[k].properties)

HasGeometry(fp) ==
    /\ fp.the_geom.present
    /\ fp.the_geom.parts # <<>>
    /\ fp.the_geom.parts[1] # <<>>

\* the footprints that have geometry, in order
Renderable == SelectSeq(Footprints, HasGeometry)

RunEnded == pc \in {"done", "thrown", "returned"}

\* C9: when the run on a readable document has ended, both outputs hold one feature for
\* every footprint that has geometry, in order, and none for a footprint that lacks it
C9_MissingGeometrySkipped ==
    (RunEnded /\ inputFile = "ok") =>
        /\ buildingsFile.written
        /\ pointsFile.written
        /\ Len(buildingsFile.features) = Len(Renderable)
        /\ Len(pointsFile.features) = Len(Renderable)
        /\ \A k \in 1..Len(Renderable) :
              /\ buildingsFile.features[k].properties.bin = Renderable[k].bin
              /\ buildingsFile.features[k].geometry = Renderable[k].the_geom

OthersEmpty ==
    \A name \in {"dob_violations", "hpd_violations", "three_one_one", "pluto_data",
                 "hpd_registrations", "hpd_contacts"} : Coll(raw, name) = <<>>

\* C10: on a readable document, whatever collections are empty or absent, the run does
\* not throw and ends with both outputs written; when only footprints are there, every
\* footprint is written with all counts 0, risk_score 0 and no recent violations
C10_EmptyCollectionsTolerated ==
    inputFile = "ok" =>
        /\ pc # "thrown"
        /\ pc = "done" =>
              /\ buildingsFile.written /\ pointsFile.written
              /\ OthersEmpty =>
                    /\ Len(buildingsFile.features) = Len(Footprints)
                    /\ \A k \in 1..Len(buildingsFile.features) :
                          LET p == buildingsFile.features[k].properties
                          IN  /\ p.bin = Footprints[k].bin
                              /\ p.dob_violation_count = 0
                              /\ ZeroMaintenanceAndComplaints(p)
                              /\ p.risk_score = 0
                              /\ p.recent_violations = <<>>

-----------------------------------------------------------------------------
(* The activity feed *)

Feed(k) == Props(k).recent_violations

\* [...recentDob, ...recentHpd, ...recent311] of the k-th building
Merged(k) ==
    features[k].locals.recentDob \o features[k].locals.recentHpd \o features[k].locals.recent311

\* C11: recent_violations of every building, computed or written, has at most 8 entries
C11_AtMostEightEntries ==
    /\ \A k \in 1..Len(features) : Len(Feed(k)) <= 8
    /\ \A k \in 1..Len(buildingsFile.features) :
          Len(buildingsFile.features[k].properties.recent_violations) <= 8

\* nine merged items, no two alike, of which the ninth is cut
C11_Witness ==
    \E k \in 1..Len(features) :
        /\ Len(Merged(k)) = 9
        /\ \A i, j \in 1..9 : i # j => Merged(k)[i] # Merged(k)[j]
        /\ Len(Feed(k)) = 8

IsIsoDate(d) ==
    /\ Len(d) = 10
    /\ \A i \in 1..10 : IF i \in {5, 8} THEN CharAt(d, i) = "-" ELSE IsDigit(CharAt(d, i))

\* year, month and day of YYYY-MM-DD as one number
DayNumber(d) ==
    DigitsToNat(Substring(d, 0, 4)) * 10000 + DigitsToNat(Substring(d, 5, 7)) * 100
    + DigitsToNat(Substring(d, 8, 10))

\* C12: consecutive entries of recent_violations have date(e_i) >= date(e_i+1) as strings,
\* and two consecutive calendar dates are in calendar order, the later first
C12_DateNonIncreasing ==
    \A k \in 1..Len(features) : \A i \in 1..(Len(Feed(k)) - 1) :
        /\ LocaleCompare(Feed(k)[i].date, Feed(k)[i + 1].date) >= 0
        /\ (IsIsoDate(Feed(k)[i].date) /\ IsIsoDate(Feed(k)[i + 1].date))
              => DayNumber(Feed(k)[i].date) >= DayNumber(Feed(k)[i + 1].date)

\* a feed of three dates whose merged list had an earlier date ahead of a later one
C12_Witness ==
    \E k \in 1..Len(features) :
        /\ \E i, j \in 1..Len(Merged(k)) :
              /\ i < j
              /\ IsIsoDate(Merged(k)[i].date) /\ IsIsoDate(Merged(k)[j].date)
              /\ DayNumber(Merged(k)[i].date) < DayNumber(Merged(k)[j].date)
              /\ InSeq(Merged(k)[i], Feed(k)) /\ InSeq(Merged(k)[j], Feed(k))
        /\ Cardinality({Feed(k)[i].date : i \in 1..Len(Feed(k))}) >= 3

\* the pair an entry is to be unique by: its date and the first 20 characters of its
\* description
PairOf(e) == <<e.date, Substring(e.description, 0, 20)>>

\* the entries from the i-th on that no earlier entry shares its pair with
RECURSIVE FirstOfPairs(_, _)
FirstOfPairs(entries, i) ==
    IF i > Len(entries) THEN <<>>
    ELSE IF \E j \in 1..(i - 1) : PairOf(entries[j]) = PairOf(entries[i])
         THEN FirstOfPairs(entries, i + 1)
         ELSE <<entries[i]>> \o FirstOfPairs(entries, i + 1)

\* C13: no two entries of recent_violations share date and 20-character description
\* prefix, and the feed is the first eight of the sorted merged items that no earlier
\* item shares that pair with: the first of every pair is kept and nothing else is dropped
C13_UniqueByDateAndPrefix ==
    \A k \in 1..Len(features) :
        /\ \A i, j \in 1..Len(Feed(k)) : i # j => PairOf(Feed(k)[i]) # PairOf(Feed(k)[j])
        /\ LET kept == FirstOfPairs(MergeSorted(Merged(k)), 1)
           IN  Feed(k) = SubSeq(kept, 1, Min(Len(kept), 8))

\* C14: sort, deduplicate and truncate applied to a feed they produced return that feed,
\* element for element
C14_AggregateIdempotent ==
    \A k \in 1..Len(features) : Aggregate(Feed(k)) = Feed(k)

\* a feed that lost merged items and holds two entries of one date
C14_Witness ==
    \E k \in 1..Len(features) :
        /\ Len(Feed(k)) < Len(Merged(k))
        /\ \E i, j \in 1..Len(Feed(k)) : i # j /\ Feed(k)[i].date = Feed(k)[j].date
        /\ Aggregate(Feed(k)) = Feed(k)

\* where an entry stands in the merged list: its first position
MergedIndex(k, e) == CHOOSE p \in 1..Len(Merged(k)) :
                        /\ Merged(k)[p] = e
                        /\ \A q \in 1..(p - 1) : Merged(k)[q] # e

SourceRank(e) == CASE e.source = "DOB" -> 1 [] e.source = "HPD" -> 2 [] OTHER -> 3

\* C15: two entries of one date stand in the feed as they stood in the merged list:
\* structural before maintenance before complaint, and within a source as the source's
\* own sort left them
C15_TiesKeepMergeOrder ==
    \A k \in 1..Len(features) : \A i, j \in 1..Len(Feed(k)) :
        (i < j /\ Feed(k)[i].date = Feed(k)[j].date) =>
            /\ InSeq(Feed(k)[i], Merged(k)) /\ InSeq(Feed(k)[j], Merged(k))
            /\ MergedIndex(k, Feed(k)[i]) < MergedIndex(k, Feed(k)[j])
            /\ SourceRank(Feed(k)[i]) <= SourceRank(Feed(k)[j])

\* one date in entries of all three sources, two of them of one source
C15_Witness ==
    \E k \in 1..Len(features) : \E h, i, j, l \in 1..Len(Feed(k)) :
        /\ h < i /\ i < j /\ j < l
        /\ {Feed(k)[x].date : x \in {h, i, j, l}} = {Feed(k)[h].date}
        /\ {Feed(k)[x].source : x \in {h, i, j, l}} = {"DOB", "HPD", "311"}

-----------------------------------------------------------------------------
(* The two outputs *)

\* the outer ring of the polygon, or of the first polygon of the multipolygon
OuterRing(g) == g.parts[1][1]

\* the sum of one coordinate over the vertices of a ring
RingSum(ring, axis) ==
    LET upTo[i \in 0..Len(ring)] == IF i = 0 THEN 0 ELSE upTo[i - 1] + ring[i][axis]
    IN  upTo[Len(ring)]

\* C16: the risk point of a building with polygon or multipolygon geometry has as
\* coordinates the sums of x and of y over the vertices of the outer ring of the (first)
\* polygon, divided by the number of those vertices
C16_CentroidIsOuterRingMean ==
    \A k \in 1..Len(pointFeatures) :
        LET ring == OuterRing(features[k].geometry)
            c == pointFeatures[k].geometry.coordinates
        IN  ring # <<>> =>
                /\ ~c.nan
                /\ c.count = Len(ring)
                /\ c.sumX = RingSum(ring, 1)
                /\ c.sumY = RingSum(ring, 2)

\* C17: every point carries the risk_score of the building at its position and a weight
\* of risk_score / 100 between 0 and 1; risk_points, once written, has as many points
\* as buildings.geojson has features, in the same order
C17_OnePointPerBuilding ==
    /\ Len(pointFeatures) <= Len(features)
    /\ \A k \in 1..Len(pointFeatures) :
          LET p == pointFeatures[k].properties
          IN  /\ p.risk_score = Props(k).risk_score
              /\ p.weight.num * 100 = p.risk_score * p.weight.den
              /\ 0 <= p.weight.num /\ p.weight.num <= p.weight.den /\ p.weight.den > 0
    /\ pointsFile.written =>
          /\ buildingsFile.written
          /\ Len(pointsFile.features) = Len(buildingsFile.features)
          /\ \A k \in 1..Len(pointsFile.features) :
                LET p == pointsFile.features[k].properties
                IN  /\ p.risk_score = buildingsFile.features[k].properties.risk_score
                    /\ p.weight.num * 100 = p.risk_score * p.weight.den

\* both files written with two buildings of different scores above 0
C17_Witness ==
    /\ pc = "done"
    /\ Len(pointsFile.features) = 2
    /\ pointsFile.features[1].properties.risk_score > 0
    /\ pointsFile.features[2].properties.risk_score > 0
    /\ pointsFile.features[1].properties.risk_score
          # pointsFile.features[2].properties.risk_score

\* C18: buildings.geojson, once written, has one feature for every footprint of the
\* input, in the order of the footprints, with id and bin the footprint's bin and with
\* the footprint's the_geom as geometry
C18_OneFeaturePerFootprint ==
    /\ Len(features) <= Len(Footprints)
    /\ \A k \in 1..Len(features) :
          /\ Props(k).id = Footprints[k].bin
          /\ Props(k).bin = Footprints[k].bin
          /\ features[k].geometry = Footprints[k].the_geom
    /\ buildingsFile.written =>
          /\ Len(buildingsFile.features) = Len(Footprints)
          /\ \A k \in 1..Len(Footprints) :
                /\ buildingsFile.features[k].properties.id = Footprints[k].bin
                /\ buildingsFile.features[k].properties.bin = Footprints[k].bin
                /\ buildingsFile.features[k].geometry = Footprints[k].the_geom

\* the file written from two footprints of different bin and different geometry
C18_Witness ==
    /\ buildingsFile.written
    /\ Len(Footprints) = 2
    /\ Footprints[1].bin # Footprints[2].bin
    /\ Footprints[1].the_geom # Footprints[2].the_geom
    /\ buildingsFile.features[2].geometry = HoledTwoParts

\* C19: a run that has returned early or thrown has written neither file, a run that has
\* ended has written both files or none, risk_points.geojson is never written without
\* buildings.geojson, and nothing is written when the input file is missing or malformed
C19_NoOutputOnAbort ==
    /\ pc \in {"returned", "thrown"} => (~buildingsFile.written /\ ~pointsFile.written)
    /\ RunEnded => (buildingsFile.written <=> pointsFile.written)
    /\ pointsFile.written => buildingsFile.written
    /\ pc = "done" => (buildingsFile.written /\ pointsFile.written)
    /\ inputFile \in {"missing", "malformed"} => (~buildingsFile.written /\ ~pointsFile.written)

\* a run that threw in the callback of its second footprint, nothing written
C19_Witness ==
    /\ pc = "thrown"
    /\ inputFile = "ok"
    /\ Len(features) = 1
    /\ Len(Footprints) >= 2
    /\ FeatureThrows(raw, Footprints[2])
    /\ ~buildingsFile.written /\ ~pointsFile.written

-----------------------------------------------------------------------------
(* The classes of maintenance violations *)

Scored(v) == v.class \in {S("A"), S("B"), S("C")}

Unscored(v) == ~Scored(v)

\* the document without its maintenance violations of other classes
WithoutUnscored(doc) == [doc EXCEPT !.hpd_violations = SelectSeq(@, Scored)]

\* C20: every counted maintenance violation of a class other than A, B and C, a missing
\* class among them, is in hpd_class_i and in hpd_violation_count, and the risk_score is
\* what it is for the same document without those violations
C20_OtherClassCountedNotScored ==
    \A k \in 1..Len(features) :
        LET p == Props(k)
            vios == features[k].locals.hpdVios
        IN  /\ p.hpd_class_i = Len(SelectSeq(vios, Unscored))
            /\ p.hpd_violation_count = Len(vios)
            /\ p.hpd_violation_count
                  = p.hpd_class_a + p.hpd_class_b + p.hpd_class_c + p.hpd_class_i
            /\ \A year \in StartYear..currentYear :
                  Age(Footprints[k], year) = features[k].locals.age =>
                      Feature(WithoutUnscored(raw), Footprints[k], year).properties.risk_score
                          = p.risk_score

\* a building over 80 years old whose only records are two maintenance violations, one of
\* class I and one without class: both counted, score 0
C20_Witness ==
    \E k \in 1..Len(features) :
        /\ features[k].locals.age > 80
        /\ Props(k).hpd_class_i = 2
        /\ Props(k).hpd_violation_count = 2
        /\ \E i, j \in 1..2 : /\ features[k].locals.hpdVios[i].class = U
                              /\ features[k].locals.hpdVios[j].class = S("I")
        /\ Props(k).dob_violation_count = 0
        /\ Props(k).complaint_311_count = 0
        /\ Props(k).risk_score = 0

-----------------------------------------------------------------------------
(* The three most recent of every source *)

EntryOf(source, r) ==
    CASE source = "DOB" -> DobEntry(r)
      [] source = "HPD" -> HpdEntry(r)
      [] OTHER -> ComplaintEntry(r)

\* the date field of a record as a string, the empty string when it is absent
DateOf(r, dateField) == IF Truthy(r[dateField]) THEN r[dateField].s ELSE ""

\* entries are the entries of min(3, n) different records of the n joined ones, and no
\* record left out has a greater date than one taken
TakesMostRecent(source, records, dateField, entries) ==
    /\ Len(entries) = Min(3, Len(records))
    /\ \E idx \in [1..Len(entries) -> 1..Len(records)] :
          /\ \A i, j \in 1..Len(entries) : i # j => idx[i] # idx[j]
          /\ \A i \in 1..Len(entries) : entries[i] = EntryOf(source, records[idx[i]])
          /\ \A i \in 1..Len(entries) :
                \A j \in (1..Len(records)) \ {idx[m] : m \in 1..Len(entries)} :
                    LocaleCompare(DateOf(records[j], dateField),
                                  DateOf(records[idx[i]], dateField)) <= 0

\* C21: of every source the merged feed takes the 3 joined records with the greatest
\* dates, all when there are fewer, and recent_violations holds at most 3 entries of one
\* source
C21_ThreeMostRecentPerSource ==
    \A k \in 1..Len(features) :
        LET l == features[k].locals
        IN  /\ TakesMostRecent("DOB", l.buildingDobViolations, "issue_date", l.recentDob)
            /\ TakesMostRecent("HPD", l.buildingHpdViolations, "novissueddate", l.recentHpd)
            /\ TakesMostRecent("311", l.building311Complaints, "created_date", l.recent311)
            /\ \A source \in {"DOB", "HPD", "311"} :
                  Cardinality({i \in 1..Len(Feed(k)) : Feed(k)[i].source = source}) <= 3

\* four structural violations of which the oldest arrived first and is left out
C21_Witness ==
    \E k \in 1..Len(features) :
        LET l == features[k].locals
        IN  /\ Len(l.buildingDobViolations) = 4
            /\ Len(l.recentDob) = 3
            /\ \A i \in 2..4 : DateOf(l.buildingDobViolations[i], "issue_date") # ""
            /\ \A i \in 2..4 :
                  LocaleCompare(DateOf(l.buildingDobViolations[1], "issue_date"),
                                DateOf(l.buildingDobViolations[i], "issue_date")) < 0
            /\ ~InSeq(DobEntry(l.buildingDobViolations[1]), l.recentDob)

\* records without date stand after the records with date in the entries of one source,
\* and are taken only when every record with date is taken
UndatedLastInSource(source, records, dateField, entries) ==
    /\ \A i, j \in 1..Len(entries) :
          (i < j /\ entries[i].date = "N/A") => entries[j].date = "N/A"
    /\ (\E i \in 1..Len(entries) : entries[i].date = "N/A") =>
          \A j \in 1..Len(records) :
              Truthy(records[j][dateField]) => InSeq(EntryOf(source, records[j]), entries)

UndatedLastInSources ==
    \A k \in 1..Len(features) :
        LET l == features[k].locals
        IN  /\ UndatedLastInSource("DOB", l.buildingDobViolations, "issue_date", l.recentDob)
            /\ UndatedLastInSource("HPD", l.buildingHpdViolations, "novissueddate", l.recentHpd)
            /\ UndatedLastInSource("311", l.building311Complaints, "created_date", l.recent311)

\* C22: a record without date ranks after every dated record of its source when the 3
\* most recent are taken, and its entry stands in recent_violations after every entry
\* that has a date
C22_UndatedSortsLast ==
    /\ UndatedLastInSources
    /\ \A k \in 1..Len(features) : \A i, j \in 1..Len(Feed(k)) :
          (i < j /\ Feed(k)[i].date = "N/A") => Feed(k)[j].date = "N/A"

\* C23: the maintenance violations counted for a footprint (hpd_violation_count and the
\* class counts) are the maintenance violations joined for its activity feed, whatever
\* fragments or issue date the records lack
C23_CountedAreJoined ==
    \A k \in 1..Len(features) :
        LET l == features[k].locals
        IN  /\ l.hpdVios = l.buildingHpdViolations
            /\ Props(k).hpd_violation_count = Len(l.buildingHpdViolations)
            /\ Props(k).hpd_class_a + Props(k).hpd_class_b + Props(k).hpd_class_c
                  + Props(k).hpd_class_i = Len(l.buildingHpdViolations)

-----------------------------------------------------------------------------
(* The input and the clock *)

\* C24: no step of processData changes a collection of the input document: each holds
\* the records it was read with, in their order
C24_InputUnchanged == [][raw' = raw]_vars

\* two footprints handled, the sort of the first one's structural violations having
\* put a later record ahead of an earlier one
C24_Witness ==
    /\ Len(features) >= 2
    /\ LET l == features[1].locals
       IN  /\ Len(l.buildingDobViolations) >= 2
           /\ l.recentDob[1] # DobEntry(l.buildingDobViolations[1])
           /\ InSeq(DobEntry(l.buildingDobViolations[1]), l.recentDob)

\* the input document with one footprint only
OnlyFootprint(doc, fp) == [doc EXCEPT !.footprints = <<fp>>]

\* C25: the properties emitted for a footprint are those the footprint and the input
\* collections determine, whatever the other footprints and whatever year the clock
\* reads when the footprint is handled; equal footprints get equal properties
C25_RecordDependsOnInputOnly ==
    /\ \A k \in 1..Len(features) : \A year \in StartYear..(StartYear + MaxYearsPassing) :
          Props(k) = Feature(OnlyFootprint(raw, Footprints[k]), Footprints[k], year).properties
    /\ \A j, k \in 1..Len(features) :
          Footprints[j] = Footprints[k] => Props(j) = Props(k)

-----------------------------------------------------------------------------
(* The first contact of every type *)

ContactTypes == {"HeadOfficer", "IndividualOwner", "SiteManager", "CorporateOwner"}

\* the owner name a contact supplies when it is the one chosen
SuppliedName(c) ==
    CASE c.type \in {S("HeadOfficer"), S("IndividualOwner")} -> FullName(c, " (Reg)")
      [] c.type = S("SiteManager") -> FullName(c, " (Mgr)")
      [] OTHER -> c.corporationname

Qualifies(c) ==
    IF c.type = S("CorporateOwner") THEN Truthy(c.corporationname) ELSE HasNames(c)

FirstOfTypes(cs) == UNION {FirstOfType(cs, type) : type \in ContactTypes}

\* C26: a name that comes from the registration's contacts is the name of the first
\* contact of its type, and the first contact of every type is looked at at the level of
\* its type: when it qualifies and no first contact of a higher level does, the owner is
\* the name of a first contact of that level
C26_FirstContactOfEachType ==
    \A k \in 1..Len(features) :
        LET cs == RegistrationContacts(k)
            owner == Props(k).owner_name
            baseline == IF LandUse(k) # {}
                        THEN Coll(raw, "pluto_data")[CHOOSE j \in LandUse(k) :
                                                        \A m \in LandUse(k) : j <= m].ownername
                        ELSE UnknownOwner
        IN  /\ owner # baseline =>
                  \E j \in FirstOfTypes(cs) : Qualifies(cs[j]) /\ owner = SuppliedName(cs[j])
            /\ \A j \in Level1(cs) : \E i \in Level1(cs) : owner = SuppliedName(cs[i])
            /\ Level1(cs) = {} =>
                  \A j \in Level2(cs) : owner = SuppliedName(cs[j])
            /\ (Level1(cs) = {} /\ Level2(cs) = {}) =>
                  \A j \in Level3(cs) : owner = SuppliedName(cs[j])

-----------------------------------------------------------------------------
(* The legacy score *)

\* the document with every structural violation given this type code
WithTypeCode(doc, code) ==
    [doc EXCEPT !.dob_violations =
        [i \in 1..Len(doc.dob_violations) |-> [doc.dob_violations[i] EXCEPT !.violation_type_code = code]]]

OtherTypeCodes == {S("E"), S("LL11"), U}

\* C29: a document that differs only in the type codes of its structural violations
\* gives every footprint the same properties, risk_score included
C29_LegacyScoreNotEmitted ==
    \A k \in 1..Len(features) : \A code \in OtherTypeCodes :
        \A year \in StartYear..currentYear :
            Age(Footprints[k], year) = features[k].locals.age =>
                Feature(WithTypeCode(raw, code), Footprints[k], year).properties = Props(k)

\* a structural violation whose other type code changes the legacy score of its building
\* and none of its properties
C29_Witness ==
    \E k \in 1..Len(features) :
        LET other == Feature(WithTypeCode(raw, S("E")), Footprints[k], currentYear)
        IN  /\ Props(k).dob_violation_count > 0
            /\ other.locals.riskScore # features[k].locals.riskScore
            /\ other.properties = Props(k)

-----------------------------------------------------------------------------
(* fetchData (scripts/fetch_data.ts): the acquisition of raw_data.json *)

\* bounds of the open-data world the requests are answered from
WorldManhattan == 120

WorldBronx == 60

WorldBrooklyn == 25

\* requests of one run that do not answer with an OK array
MaxFailures == 2

FootprintChunkSize == 100

KeyedChunkSize == 200

ManhattanCap == 2000

BronxCap == 4500

BrooklynCap == 2000

BinLength == 7

BblLength == 10

\* new Set(list) as Array.from gives it back: first occurrences, in order
Unique(list) ==
    LET first == SelectSeq([k \in 1..Len(list) |-> k],
                           LAMBDA k : \A j \in 1..(k - 1) : list[j] # list[k])
    IN  [n \in 1..Len(first) |-> list[first[n]]]

\* list.filter(x => x is one of keep)
Keep(list, keep) == SelectSeq(list, LAMBDA x : x \in keep)

\* b && b.length === width
HasLength(v, width) == Truthy(v) /\ v.t = "str" /\ Len(v.s) = width

\* list.map(r => r[field]).filter(b => b && b.length === width)
KeysOfLength(list, field, width) ==
    Keep([k \in 1..Len(list) |-> list[k][field]],
         {list[k][field] : k \in {j \in 1..Len(list) : HasLength(list[j][field], width)}})

\* list.map(r => r[field]).filter(id => id)
TruthyKeys(list, field) ==
    Keep([k \in 1..Len(list) |-> list[k][field]],
         {list[k][field] : k \in {j \in 1..Len(list) : Truthy(list[j][field])}})

\* bins.filter(b => b.startsWith(digit)).slice(0, cap)
BoroughBins(bins, digit, cap) ==
    Slice(Keep(bins, {bins[k] : k \in {j \in 1..Len(bins) : StartsWith(bins[j].s, digit)}}), cap)

\* Array.isArray(body) ? body : []
ArrayOrEmpty(body) == IF body.array THEN body.items ELSE <<>>

\* list.slice(i, i + chunkSize)
Chunk(list, i, chunkSize) ==
    SubSeq(list, i + 1, IF i + chunkSize > Len(list) THEN Len(list) ELSE i + chunkSize)

\* a chunk start that repeats the last key of the chunk before
NextChunkStartOverlapping(i, chunkSize) == i + chunkSize - 1

\* the loop's i += chunkSize
NextChunkStart(i, chunkSize) == i + chunkSize

\* the BINs of one borough of the world: the borough digit and six digits
WorldBins(digit, count) == [k \in 1..count |-> S(digit \o PadStart(NatToStr(k), BinLength - 1))]

AllWorldBins ==
    WorldBins("1", WorldManhattan) \o WorldBins("2", WorldBronx) \o WorldBins("3", WorldBrooklyn)

\* a structural violation as the endpoint returns it (only bin is read)
DobRow(bin) == [bin |-> bin]

\* the violations of one borough: one per BIN, then a second one of the first
\* BIN, one without BIN, one with a short BIN and one of a BIN outside the
\* three boroughs
WorldDob(digit, count) ==
    [k \in 1..count |-> DobRow(WorldBins(digit, count)[k])]
    \o << DobRow(WorldBins(digit, count)[1]), DobRow(U), DobRow(S(digit \o "01")),
          DobRow(S("4" \o PadStart(digit, BinLength - 1))) >>

WorldDobManhattan == WorldDob("1", WorldManhattan)

WorldDobBronx == WorldDob("2", WorldBronx)

WorldDobBrooklyn == WorldDob("3", WorldBrooklyn)

WorldHpd == << [violationid |-> S("H1")], [violationid |-> S("H2")] >>

World311 == << [unique_key |-> S("K1")] >>

WorldEvictions == << [docket_number |-> S("E1")], [docket_number |-> S("E2")] >>

\* the footprints of the k-th BIN of the world: every 97th has no base_bbl, the
\* second shares the lot of the first, the third has two footprints
WorldBbl(k) ==
    IF k % 97 = 0 THEN U
    ELSE S(Substring(AllWorldBins[k].s, 0, 1) \o PadStart(NatToStr(IF k = 2 THEN 1 ELSE k), BblLength - 1))

FootprintRow(k) == [bin |-> AllWorldBins[k], base_bbl |-> WorldBbl(k)]

WorldFootprints ==
    [b \in {AllWorldBins[k] : k \in 1..Len(AllWorldBins)} |->
        LET k == CHOOSE j \in 1..Len(AllWorldBins) : AllWorldBins[j] = b
        IN  IF k = 3 THEN <<FootprintRow(k), FootprintRow(k)>> ELSE <<FootprintRow(k)>>]

WorldPluto ==
    [b \in {WorldBbl(k) : k \in 1..Len(AllWorldBins)} \ {U} |-> << [bbl |-> b] >>]

\* the registration of the k-th BIN: every 50th has no registration id, the
\* fifth BIN has none at all
WorldRegId(k) == IF k % 50 = 0 THEN U ELSE S("R" \o NatToStr(k))

WorldRegs ==
    [b \in {AllWorldBins[k] : k \in 1..Len(AllWorldBins)} |->
        LET k == CHOOSE j \in 1..Len(AllWorldBins) : AllWorldBins[j] = b
        IN  IF k = 5 THEN <<>> ELSE << [bin |-> b, registrationid |-> WorldRegId(k)] >>]

WorldContacts ==
    [r \in {WorldRegId(k) : k \in 1..Len(AllWorldBins)} \ {U} |->
        << [registrationid |-> r, type |-> S("HeadOfficer")] >>]

\* the rows the endpoint holds for the keys from..to of one request, in key order
RECURSIVE RowsFor(_, _, _, _)
RowsFor(world, keys, from, to) ==
    IF from > to THEN <<>>
    ELSE IF from = to
         THEN (IF keys[from] \in DOMAIN world THEN world[keys[from]] ELSE <<>>)
         ELSE RowsFor(world, keys, from, (from + to) \div 2)
              \o RowsFor(world, keys, (from + to) \div 2 + 1, to)

\* what a request can come to: fetch or json() rejects, or a body arrives
\* with a status (ok or not) that is an array or not
Outcomes ==
    {[throws |-> TRUE, ok |-> FALSE, array |-> FALSE]}
    \cup {[throws |-> FALSE, ok |-> o, array |-> a] : o \in BOOLEAN, a \in BOOLEAN}

Nominal(out) == ~out.throws /\ out.ok /\ out.array

\* the parsed body of a request that did not throw
Body(out, rows) == [array |-> out.array, items |-> IF out.array THEN rows ELSE <<>>]

\* Step B is entered: the registration ids of the links, or straight to the evictions
EnterContacts(l) ==
    LET ids == Unique(TruthyKeys(l.hpdRegistrations, "registrationid"))
    IN  [l EXCEPT !.uniqueRegIds = ids, !.i = 0,
                  !.pc = IF Len(ids) > 0 THEN "hpdContacts" ELSE "evictions"]

\* section 5 is entered: the BINs of the footprints fetched
EnterRegs(l) ==
    LET bins == Unique(KeysOfLength(l.footprints, "bin", BinLength))
    IN  [l EXCEPT !.uniqueBins = bins, !.i = 0,
                  !.pc = IF Len(bins) > 0 THEN "hpdRegistrations" ELSE "evictions"]

\* section 4 is entered: the lots of the footprints fetched
EnterPluto(l) ==
    LET bbls == Unique(KeysOfLength(l.footprints, "base_bbl", BblLength))
        m == [l EXCEPT !.uniqueBbls = bbls, !.i = 0]
    IN  IF Len(bbls) > 0 THEN [m EXCEPT !.pc = "plutoData"] ELSE EnterRegs(m)

\* allDobData, uniqueBinsFromDob and targetBins, and section 3 is entered
EnterFootprints(l) ==
    LET all == ArrayOrEmpty(l.dobManhattanData) \o ArrayOrEmpty(l.dobBronxData)
               \o ArrayOrEmpty(l.dobBrooklynData)
        uniqueBinsFromDob == Unique(KeysOfLength(all, "bin", BinLength))
        target == BoroughBins(uniqueBinsFromDob, "1", ManhattanCap)
                  \o BoroughBins(uniqueBinsFromDob, "2", BronxCap)
                  \o BoroughBins(uniqueBinsFromDob, "3", BrooklynCap)
        m == [l EXCEPT !.allDobData = all, !.targetBins = target, !.i = 0]
    IN  IF Len(target) > 0 THEN [m EXCEPT !.pc = "footprints"] ELSE EnterPluto(m)

\* the request a run makes is written down with what came of it
Logged(l, endpoint, keys, out) ==
    [l EXCEPT !.requests = Append(@, [endpoint |-> endpoint, keys |-> keys, out |-> out]),
              !.failures = IF Nominal(out) THEN @ ELSE @ + 1]

\* a request of the first five: await fetch, await json(), under the outer try only
WholeRequest(l, rows, out) ==
    IF out.throws THEN [Logged(l, l.pc, <<>>, out) EXCEPT !.pc = "caught"]
    ELSE [Logged(l, l.pc, <<>>, out) EXCEPT ![l.pc] = Body(out, rows)]

\* the records of a chunk are added: no throw, an array, and (footprints) res.ok
Contributes(endpoint, out) == ~out.throws /\ out.array /\ (endpoint = "footprints" => out.ok)

\* where the run goes when a loop over chunks ends
AfterChunks(l) ==
    CASE l.pc = "footprints" -> EnterPluto(l)
      [] l.pc = "plutoData" -> EnterRegs(l)
      [] l.pc = "hpdRegistrations" -> EnterContacts(l)
      [] l.pc = "hpdContacts" -> [l EXCEPT !.pc = "evictions"]

\* one turn of a loop over chunks: slice, request, spread, i += chunkSize
ChunkRequest(l, keys, chunkSize, world, out) ==
    LET chunk == Chunk(keys, l.i, chunkSize)
        m == [Logged(l, l.pc, chunk, out) EXCEPT
                 ![l.pc] = IF Contributes(l.pc, out) THEN @ \o RowsFor(world, chunk, 1, Len(chunk)) ELSE @,
                 !.i = NextChunkStart(l.i, chunkSize)]
    IN  IF m.i < Len(keys) THEN m ELSE AfterChunks(m)

\* an outcome within the failures the model follows
Allowed(out) == Nominal(out) \/ fetch.failures < MaxFailures

FetchHpdViolations ==
    /\ fetch.pc = "hpdData"
    /\ \E out \in Outcomes :
        /\ Allowed(out)
        /\ LET m == WholeRequest(fetch, WorldHpd, out)
           IN  fetch' = IF out.throws THEN m ELSE [m EXCEPT !.pc = "dobManhattanData"]
    /\ UNCHANGED <<inputFile, raw, currentYear, pc, features, pointFeatures, buildingsFile,
                   pointsFile, rawDataFile, search>>

FetchDobManhattan ==
    /\ fetch.pc = "dobManhattanData"
    /\ \E out \in Outcomes :
        /\ Allowed(out)
        /\ LET m == WholeRequest(fetch, WorldDobManhattan, out)
           IN  fetch' = IF out.throws THEN m ELSE [m EXCEPT !.pc = "dobBronxData"]
    /\ UNCHANGED <<inputFile, raw, currentYear, pc, features, pointFeatures, buildingsFile,
                   pointsFile, rawDataFile, search>>

FetchDobBronx ==
    /\ fetch.pc = "dobBronxData"
    /\ \E out \in Outcomes :
        /\ Allowed(out)
        /\ LET m == WholeRequest(fetch, WorldDobBronx, out)
           IN  fetch' = IF out.throws THEN m ELSE [m EXCEPT !.pc = "dobBrooklynData"]
    /\ UNCHANGED <<inputFile, raw, currentYear, pc, features, pointFeatures, buildingsFile,
                   pointsFile, rawDataFile, search>>

FetchDobBrooklyn ==
    /\ fetch.pc = "dobBrooklynData"
    /\ \E out \in Outcomes :
        /\ Allowed(out)
        /\ LET m == WholeRequest(fetch, WorldDobBrooklyn, out)
           IN  fetch' = IF out.throws THEN m ELSE [m EXCEPT !.pc = "threeOneOneData"]
    /\ UNCHANGED <<inputFile, raw, currentYear, pc, features, pointFeatures, buildingsFile,
                   pointsFile, rawDataFile, search>>

\* the 311 request, then the unique BINs and the target BINs
FetchThreeOneOne ==
    /\ fetch.pc = "threeOneOneData"
    /\ \E out \in Outcomes :
        /\ Allowed(out)
        /\ LET m == WholeRequest(fetch, World311, out)
           IN  fetch' = IF out.throws THEN m ELSE EnterFootprints(m)
    /\ UNCHANGED <<inputFile, raw, currentYear, pc, features, pointFeatures, buildingsFile,
                   pointsFile, rawDataFile, search>>

FetchFootprintChunk ==
    /\ fetch.pc = "footprints"
    /\ \E out \in Outcomes :
        /\ Allowed(out)
        /\ fetch' = ChunkRequest(fetch, fetch.targetBins, FootprintChunkSize, WorldFootprints, out)
    /\ UNCHANGED <<inputFile, raw, currentYear, pc, features, pointFeatures, buildingsFile,
                   pointsFile, rawDataFile, search>>

FetchPlutoChunk ==
    /\ fetch.pc = "plutoData"
    /\ \E out \in Outcomes :
        /\ Allowed(out)
        /\ fetch' = ChunkRequest(fetch, fetch.uniqueBbls, KeyedChunkSize, WorldPluto, out)
    /\ UNCHANGED <<inputFile, raw, currentYear, pc, features, pointFeatures, buildingsFile,
                   pointsFile, rawDataFile, search>>

FetchRegsChunk ==
    /\ fetch.pc = "hpdRegistrations"
    /\ \E out \in Outcomes :
        /\ Allowed(out)
        /\ fetch' = ChunkRequest(fetch, fetch.uniqueBins, KeyedChunkSize, WorldRegs, out)
    /\ UNCHANGED <<inputFile, raw, currentYear, pc, features, pointFeatures, buildingsFile,
                   pointsFile, rawDataFile, search>>

FetchContactsChunk ==
    /\ fetch.pc = "hpdContacts"
    /\ \E out \in Outcomes :
        /\ Allowed(out)
        /\ fetch' = ChunkRequest(fetch, fetch.uniqueRegIds, KeyedChunkSize, WorldContacts, out)
    /\ UNCHANGED <<inputFile, raw, currentYear, pc, features, pointFeatures, buildingsFile,
                   pointsFile, rawDataFile, search>>

\* the evictions request, in a try of its own
FetchEvictions ==
    /\ fetch.pc = "evictions"
    /\ \E out \in Outcomes :
        /\ Allowed(out)
        /\ fetch' = [Logged(fetch, "evictions", <<>>, out) EXCEPT
                        !.evictions = IF ~out.throws /\ out.array THEN WorldEvictions ELSE @,
                        !.pc = "write"]
    /\ UNCHANGED <<inputFile, raw, currentYear, pc, features, pointFeatures, buildingsFile,
                   pointsFile, rawDataFile, search>>

\* the output object
Output(l) ==
    [generated |-> TRUE,
     dob_violations |-> l.allDobData,
     hpd_violations |-> ArrayOrEmpty(l.hpdData),
     three_one_one |-> ArrayOrEmpty(l.threeOneOneData),
     footprints |-> l.footprints,
     pluto_data |-> l.plutoData,
     hpd_registrations |-> l.hpdRegistrations,
     hpd_contacts |-> l.hpdContacts,
     evictions |-> l.evictions]

\* fs.writeFileSync(raw_data.json, JSON.stringify(output))
WriteRawData ==
    /\ fetch.pc = "write"
    /\ rawDataFile' = [writes |-> rawDataFile.writes + 1, output |-> Output(fetch)]
    /\ fetch' = [fetch EXCEPT !.pc = "done"]
    /\ UNCHANGED <<inputFile, raw, currentYear, pc, features, pointFeatures, buildingsFile,
                   pointsFile, search>>

NextFetch ==
    \/ FetchHpdViolations \/ FetchDobManhattan \/ FetchDobBronx \/ FetchDobBrooklyn
    \/ FetchThreeOneOne \/ FetchFootprintChunk \/ FetchPlutoChunk \/ FetchRegsChunk
    \/ FetchContactsChunk \/ FetchEvictions \/ WriteRawData

\* fetchData() is called; processData is not running
InitFetch ==
    /\ inputFile = "missing"
    /\ raw = EmptyDoc
    /\ currentYear = StartYear
    /\ pc = "start"
    /\ features = <<>>
    /\ pointFeatures = <<>>
    /\ buildingsFile = NoFile
    /\ pointsFile = NoFile
    /\ fetch = [FetchNotRun EXCEPT !.pc = "hpdData"]
    /\ rawDataFile = NoRawData
    /\ search = SearchUnmounted

SpecFetch == InitFetch /\ [][NextFetch]_vars

-----------------------------------------------------------------------------
(* fetchData: what a run leaves behind *)

\* the run has returned, by the write or by the outer catch
RunOver == fetch.pc \in {"done", "caught"}

RequestsOf(endpoint) == SelectSeq(fetch.requests, LAMBDA r : r.endpoint = endpoint)

\* C27: every run of fetchData that has ended has written raw_data.json exactly
\* once, with its eight collections, whichever requests failed.
C27_WritesOnceWhateverFails ==
    RunOver => rawDataFile.writes = 1 /\ rawDataFile.output.generated

\* a run that reaches the write has written once, and only a throw of one of
\* the first five requests keeps a run from the write
WritesOnceUnlessEarlyThrow ==
    /\ fetch.pc = "done" => rawDataFile.writes = 1 /\ rawDataFile.output = Output(fetch)
    /\ fetch.pc = "caught" =>
          /\ rawDataFile.writes = 0
          /\ fetch.requests[Len(fetch.requests)].out.throws
          /\ Len(fetch.requests) <= 5

ChunkedEndpoints == {"footprints", "plutoData", "hpdRegistrations", "hpdContacts"}

TargetKeys(endpoint) ==
    CASE endpoint = "footprints" -> fetch.targetBins
      [] endpoint = "plutoData" -> fetch.uniqueBbls
      [] endpoint = "hpdRegistrations" -> fetch.uniqueBins
      [] endpoint = "hpdContacts" -> fetch.uniqueRegIds

SizeOf(endpoint) == IF endpoint = "footprints" THEN FootprintChunkSize ELSE KeyedChunkSize

WorldOf(endpoint) ==
    CASE endpoint = "footprints" -> WorldFootprints
      [] endpoint = "plutoData" -> WorldPluto
      [] endpoint = "hpdRegistrations" -> WorldRegs
      [] endpoint = "hpdContacts" -> WorldContacts

\* the chunk answered with records: no throw, an array and, for footprints, an OK status
Successful(endpoint, out) ==
    /\ ~out.throws
    /\ out.array
    /\ endpoint = "footprints" => out.ok

RECURSIVE KeysRequested(_, _)
KeysRequested(requests, k) ==
    IF k > Len(requests) THEN <<>> ELSE requests[k].keys \o KeysRequested(requests, k + 1)

RECURSIVE RecordsReceived(_, _, _)
RecordsReceived(endpoint, requests, k) ==
    IF k > Len(requests) THEN <<>>
    ELSE (IF Successful(endpoint, requests[k].out)
          THEN RowsFor(WorldOf(endpoint), requests[k].keys, 1, Len(requests[k].keys))
          ELSE <<>>)
         \o RecordsReceived(endpoint, requests, k + 1)

\* C28: in a run that has written, for each chunked retrieval the chunks asked
\* for, one after another, are the target keys cut every 100 (footprints) or
\* 200 keys, every key in one chunk only, and the collection written is the
\* concatenation, in chunk order, of the records of the successful chunks.
C28_ChunksCoverTargetsInOrder ==
    fetch.pc = "done" =>
        \A e \in ChunkedEndpoints :
            LET rs == RequestsOf(e)
                keys == TargetKeys(e)
            IN  /\ Cardinality({keys[k] : k \in 1..Len(keys)}) = Len(keys)
                /\ KeysRequested(rs, 1) = keys
                /\ \A k \in 1..Len(rs) :
                      Len(rs[k].keys) = IF k < Len(rs) THEN SizeOf(e)
                                        ELSE Len(keys) - SizeOf(e) * (Len(rs) - 1)
                /\ \A k \in 1..Len(rs) : Len(rs[k].keys) \in 1..SizeOf(e)
                /\ rawDataFile.output[IF e = "footprints" THEN "footprints"
                                      ELSE IF e = "plutoData" THEN "pluto_data"
                                      ELSE IF e = "hpdRegistrations" THEN "hpd_registrations"
                                      ELSE "hpd_contacts"]
                   = RecordsReceived(e, rs, 1)

\* a run has written after a footprint chunk failed before a successful one, and
\* a land-use chunk failed too
C28_Witness ==
    /\ fetch.pc = "done"
    /\ LET fs == RequestsOf("footprints")
           ps == RequestsOf("plutoData")
       IN  /\ Len(fs) = 3
           /\ ~fs[1].out.ok /\ ~fs[1].out.throws
           /\ Successful("footprints", fs[2].out)
           /\ Len(rawDataFile.output.footprints) > 0
           /\ \E k \in 1..Len(ps) : ps[k].out.throws
           /\ Len(rawDataFile.output.hpd_registrations) > 0

-----------------------------------------------------------------------------
(* SearchBar (components/Map/SearchBar.tsx): the address search box *)

\* keystrokes of one session
MaxKeystrokes == 4

\* val.length > 2
MinQueryLength == 2

\* what the input can hold after a keystroke
InputValues == {"", "m", "ma", "mai", "main"}

\* a feature of the geosearch answer to text (text is kept to tell the answers apart)
Suggestion(text, n) ==
    [properties |-> [id |-> text \o "#" \o NatToStr(n), label |-> text \o " Street"],
     geometry |-> [coordinates |-> <<n, n>>],
     text |-> text]

\* the bodies the geosearch can answer a text with: features, no features, an
\* error object without a features field
GeosearchBodies(text) ==
    {[features |-> TRUE, list |-> <<Suggestion(text, 1), Suggestion(text, 2)>>],
     [features |-> TRUE, list |-> <<>>],
     [features |-> FALSE, list |-> <<>>]}

\* handleSearch: the onChange handler of the input
HandleSearch ==
    /\ search.mounted
    /\ search.typed < MaxKeystrokes
    /\ \E val \in InputValues \ {search.query} :
        search' = IF Len(val) > MinQueryLength
                  THEN [search EXCEPT !.query = val, !.loading = TRUE,
                                      !.searchTimeout = [pending |-> TRUE, val |-> val],
                                      !.typed = @ + 1]
                  ELSE [search EXCEPT !.query = val, !.results = <<>>, !.loading = FALSE,
                                      !.searchTimeout = NoTimer, !.typed = @ + 1]
    /\ UNCHANGED <<inputFile, raw, currentYear, pc, features, pointFeatures, buildingsFile,
                   pointsFile, fetch, rawDataFile>>

\* the 300 ms have passed: the timer callback starts and awaits its fetch
TimerFires ==
    /\ search.searchTimeout.pending
    /\ search' = [search EXCEPT !.searchTimeout = NoTimer,
                                !.calls = Append(@, search.searchTimeout.val)]
    /\ UNCHANGED <<inputFile, raw, currentYear, pc, features, pointFeatures, buildingsFile,
                   pointsFile, fetch, rawDataFile>>

\* the calls without the k-th
WithoutCall(calls, k) == SubSeq(calls, 1, k - 1) \o SubSeq(calls, k + 1, Len(calls))

\* a timer callback resumes with its answer: setResults if data.features, then
\* the finally
Answered(s, k, body) ==
    [s EXCEPT !.results = IF body.features THEN body.list ELSE @,
              !.loading = FALSE,
              !.calls = WithoutCall(@, k)]

\* the fetch or json() of a call rejected: the catch, then the finally
Failed(s, k) == [s EXCEPT !.loading = FALSE, !.calls = WithoutCall(@, k)]

\* the answer to one of the calls in flight arrives, in any order
ResponseArrives ==
    /\ \E k \in 1..Len(search.calls) :
        \/ \E body \in GeosearchBodies(search.calls[k]) : search' = Answered(search, k, body)
        \/ search' = Failed(search, k)
    /\ UNCHANGED <<inputFile, raw, currentYear, pc, features, pointFeatures, buildingsFile,
                   pointsFile, fetch, rawDataFile>>

\* handleSelect: a row of the dropdown is clicked
HandleSelect ==
    /\ \E k \in 1..Len(search.results) :
        search' = [search EXCEPT !.query = search.results[k].properties.label,
                                 !.results = <<>>]
    /\ UNCHANGED <<inputFile, raw, currentYear, pc, features, pointFeatures, buildingsFile,
                   pointsFile, fetch, rawDataFile>>

\* the clear button, rendered while query is not empty
ClearButton ==
    /\ search.query # ""
    /\ search' = [search EXCEPT !.query = "", !.results = <<>>]
    /\ UNCHANGED <<inputFile, raw, currentYear, pc, features, pointFeatures, buildingsFile,
                   pointsFile, fetch, rawDataFile>>

NextSearch == HandleSearch \/ TimerFires \/ ResponseArrives \/ HandleSelect \/ ClearButton

\* the search box is mounted; neither script is running
InitSearch ==
    /\ inputFile = "missing"
    /\ raw = EmptyDoc
    /\ currentYear = StartYear
    /\ pc = "start"
    /\ features = <<>>
    /\ pointFeatures = <<>>
    /\ buildingsFile = NoFile
    /\ pointsFile = NoFile
    /\ fetch = FetchNotRun
    /\ rawDataFile = NoRawData
    /\ search = [SearchUnmounted EXCEPT !.mounted = TRUE]

SpecSearch == InitSearch /\ [][NextSearch]_vars

\* C30: the results shown belong to the input as it is now, and an input of 2
\* characters or fewer (shortened or cleared) has no results and is not loading.
C30_ResultsBelongToLatestInput ==
    /\ \A k \in 1..Len(search.results) : search.results[k].text = search.query
    /\ Len(search.query) <= MinQueryLength => search.results = <<>> /\ ~search.loading

====
